---------------------------- MODULE Spec2Model ----------------------------
(***************************************************************************)
(* A model of rishabhdubeyiisc/multi_threaded_server:                      *)
(*   - the synchrophasor frame codec of example_data_frame.py              *)
(*     (CommonFrame, DataFrame) and the FRASEC helpers of udp_payloads.py; *)
(*   - the UDP clock-offset server of udp_server_main.py with              *)
(*     udp_server_class.py.                                                *)
(*                                                                         *)
(* Conventions.  TLC integers are 32-bit signed, so a 32-bit wire word     *)
(* that may have its top bit set (a packed phasor) is held as its          *)
(* big-endian byte tuple; every other field is held as the Python int the  *)
(* code holds.  Byte strings are sequences of 0..255.  A Python exception  *)
(* is an outcome record [kind |-> "error", err |-> <exception class>,      *)
(* ...]; FrameError derives from BaseException (example_data_frame.py      *)
(* line 1347), so "except Exception" does not catch it.                    *)
(*                                                                         *)
(* example_data_frame.py names ConfigFrame2, HeaderFrame, CommandFrame,    *)
(* ConfigFrame1, ConfigFrame3 and synchrophasor.utils without defining     *)
(* them; they are taken as the collaborators the file was written against  *)
(* (CommandFrame a CommonFrame subclass, the configuration a holder of the *)
(* per-stream counts and format flags), and the interpreter as one that    *)
(* still has collections.Sequence.                                         *)
(***************************************************************************)
EXTENDS Integers, Sequences, FiniteSets, TLC

VARIABLES
    \* ---- FRASEC packers (CommonFrame.set_frasec, udp_payloads.set_frasec)
    fin,        \* the arguments (fr_seconds, leap_dir, leap_occ, leap_pen, time_quality)
    fcommon,    \* outcome of CommonFrame.set_frasec followed by get_frasec
    fpayload,   \* outcome of udp_payloads.set_frasec followed by int2frasec
    \* ---- frame codec
    cpc,        \* position of the codec scenario
    cfg,        \* the configuration a data frame is built against
    now,        \* the wall clock: [soc, frac]
    frame,      \* the constructed frame (outcome of the constructor)
    enc,        \* outcome of convert2bytes on the constructed frame
    wire,       \* the byte string that reaches the decoder
    dcfg,       \* the configuration handed to the decoder (or NoCfg)
    dec,        \* outcome of CommonFrame.convert2frame(wire, dcfg)
    peek,       \* outcome of CommonFrame.extract_frame_type(wire)
    measured,   \* outcome of DataFrame.get_measurements() on frame
    stat_codec, \* a STAT tuple, its word by _stat2int, the tuple _int2stat reads back
    given,      \* the soc and frasec arguments the frame was constructed with
    rewire,     \* outcome of re-encoding the decoded frame
    \* ---- UDP clock-offset server (udp_server_main.__main__)
    spc,                 \* "boot", "prompt", "loop" while the receive loop runs,
                         \* "stopped" after it, "exited" when the process died
    proc,                \* the server process: which program, its socket, its
                         \* plot choice, the files written, its exit status
    global_analyzer,     \* TimeSeriesAnalyzer(buffer_size=2000)
    client_analyzers,    \* endpoint -> TimeSeriesAnalyzer(buffer_size=500)
    client_packet_count, \* endpoint -> int
    client_bias_us,      \* endpoint -> None | int
    sqn_num,             \* next ack_num
    sender_addr,         \* UDP_server.sender_addr
    reply,               \* the datagram send_ack sent in the last iteration, if any
    received,            \* number of datagrams taken from the socket
    last,                \* what the last loop iteration did
    seen,                \* endpoint -> the samples accepted from it (count, sum, 30th)
    traffic,             \* what the network can deliver: endpoints, datagrams, how many
    run2,                \* a second run of the server, for two-run comparisons
    \* ---- time-sync client (udp_simple_client, udp_simple_client_fast)
    kpc,                 \* "send" before sendto, "wait" in recvfrom, "exited", "stopped"
    max_packets,         \* --count
    local_time_offset,   \* in twentieths of a microsecond
    sync_count,          \* corrections applied since start or since the last reset
    total_corrections,   \* sum of |compensated correction|, in half microseconds
    MODE_ID,             \* the IDCODE the client announces its scheme with
    payload,             \* the datagram crafted in this iteration
    applied,             \* what the last pass through the reply handling did
    sent,                \* datagrams handed to sendto
    answers              \* datagrams returned by recvfrom

fvars == <<fin, fcommon, fpayload>>
cvars == <<cpc, cfg, now, frame, enc, wire, dcfg, dec, peek, measured, stat_codec, given, rewire>>
svars == <<spc, global_analyzer, client_analyzers, client_packet_count,
           client_bias_us, proc, sqn_num, sender_addr, reply, received, last, seen,
           traffic, run2>>
kvars == <<kpc, max_packets, MODE_ID, local_time_offset, sync_count,
           total_corrections, payload, applied, sent, answers>>
vars == <<fvars, cvars, svars, kvars>>

-----------------------------------------------------------------------------
(* Bit and byte primitives                                                 *)

RECURSIVE BitAnd(_, _)
BitAnd(a, b) ==
    IF a = 0 \/ b = 0 THEN 0
    ELSE (a % 2) * (b % 2) + 2 * BitAnd(a \div 2, b \div 2)

RECURSIVE BitOr(_, _)
BitOr(a, b) ==
    IF a = 0 THEN b
    ELSE IF b = 0 THEN a
    ELSE (IF a % 2 = 1 \/ b % 2 = 1 THEN 1 ELSE 0) + 2 * BitOr(a \div 2, b \div 2)

RECURSIVE BitXor(_, _)
BitXor(a, b) ==
    IF a = 0 THEN b
    ELSE IF b = 0 THEN a
    ELSE ((a + b) % 2) + 2 * BitXor(a \div 2, b \div 2)

RECURSIVE Pow2(_)
Pow2(n) == IF n = 0 THEN 1 ELSE 2 * Pow2(n - 1)

Shl(a, n) == a * Pow2(n)
Shr(a, n) == a \div Pow2(n)

Abs(x) == IF x < 0 THEN -x ELSE x

\* bool(x) of a Python int
PyBool(x) == x # 0

\* int.to_bytes(width, "big") of an int that fits the width
RECURSIVE ToBytes(_, _)
ToBytes(n, width) ==
    IF width = 0 THEN <<>>
    ELSE Append(ToBytes(n \div 256, width - 1), n % 256)

\* int.from_bytes(b, "big", signed=False); the empty string gives 0
RECURSIVE FromBytes(_)
FromBytes(b) ==
    IF Len(b) = 0 THEN 0
    ELSE 256 * FromBytes(SubSeq(b, 1, Len(b) - 1)) + b[Len(b)]

\* Python slice b[lo:hi] for 0 <= lo, hi: clipped to the string, never an error
Slice(b, lo, hi) ==
    LET h == IF hi > Len(b) THEN Len(b) ELSE hi
    IN  IF lo >= h THEN <<>> ELSE SubSeq(b, lo + 1, h)

\* b[0:-2] and b[-2:]
AllButLast2(b) == IF Len(b) <= 2 THEN <<>> ELSE SubSeq(b, 1, Len(b) - 2)
Last2(b) == IF Len(b) <= 2 THEN b ELSE SubSeq(b, Len(b) - 1, Len(b))

\* struct.unpack("!h", pack("!H", u)) and back: two's complement on 16 bits
ToSigned16(u) == IF u >= 32768 THEN u - 65536 ELSE u
ToUnsigned16(s) == IF s < 0 THEN s + 65536 ELSE s

\* x with bit k inverted
XorBit(x, k) == IF (x \div Pow2(k)) % 2 = 1 THEN x - Pow2(k) ELSE x + Pow2(k)

\* One step of CRC16/XMODEM on a 16-bit register: shift left, and xor the
\* polynomial 0x1021 (bits 12, 5 and 0) in when a one falls out
CrcShift(c) ==
    IF c >= 32768 THEN XorBit(XorBit(XorBit((c * 2) % 65536, 12), 5), 0)
    ELSE (c * 2) % 65536

RECURSIVE CrcBits(_, _)
CrcBits(c, n) == IF n = 0 THEN c ELSE CrcBits(CrcShift(c), n - 1)

\* The table of a byte-at-a-time CRC16/XMODEM: entry i is the register
\* after the eight shifts of byte i
CRC16_XMODEM_TABLE == [i \in 0..255 |-> CrcBits(i * 256, 8)]

\* The register after one more byte
CrcByte(c, byte) ==
    BitXor((c % 256) * 256, CRC16_XMODEM_TABLE[BitXor(c \div 256, byte)])

\* The register after bytes lo..hi of data, taken in order.  The range is
\* halved, and the register of the first half is settled before the second
\* half is entered, so that the evaluation stays shallow.
RECURSIVE CrcRange(_, _, _, _)
CrcRange(data, crc, lo, hi) ==
    IF lo > hi THEN crc
    ELSE IF lo = hi THEN CrcByte(crc, data[lo])
    ELSE LET mid == (lo + hi) \div 2
             left == CrcRange(data, crc, lo, mid)
         IN  IF left < 0 THEN left ELSE CrcRange(data, left, mid + 1, hi)

\* synchrophasor.utils.crc16xmodem(data, crc)
crc16xmodem(data, crc) == CrcRange(data, crc, 1, Len(data))

-----------------------------------------------------------------------------
(* FRASEC                                                                  *)

FrameError(msg) == [kind |-> "error", err |-> "FrameError", msg |-> msg]
Raised(cls, msg) == [kind |-> "error", err |-> cls, msg |-> msg]
Ok(v) == [kind |-> "ok", val |-> v]
IsOk(r) == r.kind = "ok"

\* The word assembled by lines 346-371 of example_data_frame.py and by
\* lines 62-87 of udp_payloads.py (the two bodies are the same text).
FrasecWord(fr_seconds, leap_dir, leap_occ, leap_pen, time_quality) ==
    LET f0 == Shl(1, 1)
        f1 == IF leap_dir = "-" THEN BitOr(f0, 1) ELSE f0
        f2 == Shl(f1, 1)
        f3 == IF leap_occ THEN BitOr(f2, 1) ELSE f2
        f4 == Shl(f3, 1)
        f5 == IF leap_pen THEN BitOr(f4, 1) ELSE f4
        f6 == Shl(f5, 4)
        f7 == BitOr(f6, time_quality)
        f8 == BitXor(f7, Shl(1, 7))
        f9 == Shl(f8, 24)
    IN  BitOr(f9, fr_seconds)

\* CommonFrame.set_frasec: the range checks, then the word
CommonFrame_set_frasec(fr_seconds, leap_dir, leap_occ, leap_pen, time_quality) ==
    IF ~(0 <= fr_seconds /\ fr_seconds <= 16777215)
    THEN FrameError("Frasec out of range")
    ELSE IF ~(0 <= time_quality /\ time_quality <= 15) \/ time_quality \in {12, 13, 14}
    THEN FrameError("Time quality flag out of range")
    ELSE IF leap_dir \notin {"+", "-"}
    THEN FrameError("Leap second direction")
    ELSE Ok(FrasecWord(fr_seconds, leap_dir, leap_occ, leap_pen, time_quality))

\* udp_payloads.set_frasec: no checks
payloads_set_frasec(fr_seconds, leap_dir, leap_occ, leap_pen, time_quality) ==
    FrasecWord(fr_seconds, leap_dir, leap_occ, leap_pen, time_quality)

FrasecTuple(f, d, o, p, q) ==
    [fr_seconds |-> f, leap_dir |-> d, leap_occ |-> o, leap_pen |-> p, time_quality |-> q]

\* CommonFrame._int2frasec
CommonFrame_int2frasec(frasec_int) ==
    LET tq == Shr(frasec_int, 24)
        leap_dir == BitAnd(tq, 64)
        leap_occ == BitAnd(tq, 32)
        leap_pen == BitAnd(tq, 16)
        time_quality == BitAnd(tq, 15)
        fr_seconds == BitAnd(frasec_int, Pow2(23) - 1)
    IN  FrasecTuple(fr_seconds, IF PyBool(leap_dir) THEN "-" ELSE "+",
                    PyBool(leap_occ), PyBool(leap_pen), time_quality)

\* udp_payloads.int2frasec
payloads_int2frasec(frasec_int) ==
    LET tq == Shr(frasec_int, 24)
        leap_dir == BitAnd(tq, 64)
        leap_occ == BitAnd(tq, 32)
        leap_pen == BitAnd(tq, 16)
        time_quality == BitAnd(tq, 15)
        fr_seconds == BitAnd(frasec_int, Pow2(23) - 1)
    IN  FrasecTuple(fr_seconds, IF PyBool(leap_dir) THEN "-" ELSE "+",
                    PyBool(leap_occ), PyBool(leap_pen), time_quality)


-----------------------------------------------------------------------------
(* Python values that may be None, an int or a tuple                       *)

PyNone == [t |-> "None"]
PyInt(n) == [t |-> "int", v |-> n]
PyTuple(x) == [t |-> "tuple", items |-> x]
PyStr(w) == [t |-> "str", w |-> w]

\* truth value of None, an int or a non-empty tuple
Truthy(x) ==
    CASE x.t = "None" -> FALSE
      [] x.t = "int" -> x.v # 0
      [] OTHER -> TRUE

-----------------------------------------------------------------------------
(* CommonFrame                                                             *)

\* CommonFrame.FRAME_TYPES
FRAME_TYPES ==
    ("data" :> 0) @@ ("header" :> 1) @@ ("cfg1" :> 2) @@ ("cfg2" :> 3) @@
    ("cfg3" :> 5) @@ ("cmd" :> 4)

\* CommonFrame.FRAME_TYPES_WORDS
FRAME_TYPES_WORDS ==
    (0 :> "data") @@ (1 :> "header") @@ (2 :> "cfg1") @@ (3 :> "cfg2") @@
    (5 :> "cfg3") @@ (4 :> "cmd")

\* CommonFrame._int2format: (phasor_polar, phasor_float, analogs_float, freq_float)
int2format(data_format) ==
    [polar        |-> PyBool(BitAnd(data_format, 1)),
     phasor_float |-> PyBool(BitAnd(data_format, 2)),
     analog_float |-> PyBool(BitAnd(data_format, 4)),
     freq_float   |-> PyBool(BitAnd(data_format, 8))]

\* Widths that do not follow the FORMAT word: every field at its wider size
get_data_format_size_wide(data_format) == [phasor |-> 8, analog |-> 4, freq |-> 4]

\* CommonFrame._get_data_format_size
get_data_format_size(data_format) ==
    [phasor |-> IF BitAnd(data_format, 2) # 0 THEN 8 ELSE 4,
     analog |-> IF BitAnd(data_format, 4) # 0 THEN 4 ELSE 2,
     freq   |-> IF BitAnd(data_format, 8) # 0 THEN 4 ELSE 2]

\* CommonFrame._check_crc
check_crc(byte_data) ==
    Last2(byte_data) = ToBytes(crc16xmodem(AllButLast2(byte_data), 65535), 2)

\* The arguments CommonFrame.set_time hands to set_frasec (lines 232-241):
\* the tuple given, the int given with the defaults, or the wall clock
FrasecArgs(frasec, clock) ==
    IF ~Truthy(frasec) THEN FrasecTuple(clock.frac, "+", FALSE, FALSE, 0)
    ELSE IF frasec.t = "tuple" THEN frasec.items
    ELSE FrasecTuple(frasec.v, "+", FALSE, FALSE, 0)

\* The pair (_soc, _frasec) set_soc and set_frasec leave, or the error raised
TimeFields(s, w) ==
    IF ~(0 <= s /\ s <= 2147483647) \* within the 0..4294967295 of set_soc
    THEN FrameError("Time stamp out of range")
    ELSE IF ~IsOk(w) THEN w
    ELSE Ok([soc |-> PyInt(s), frasec |-> PyInt(w.val)])

SetFrasecOf(a) ==
    CommonFrame_set_frasec(a.fr_seconds, a.leap_dir, a.leap_occ, a.leap_pen,
                           a.time_quality)

\* CommonFrame.set_time(soc, frasec) at wall-clock reading clock = [soc, frac]
CommonFrame_set_time(soc, frasec, clock) ==
    TimeFields(IF Truthy(soc) THEN soc.v ELSE clock.soc,
               SetFrasecOf(FrasecArgs(frasec, clock)))

\* The common fields of a frame whose time is t
CommonFields(frame_type, pmu_id_code, version, t) ==
    IF ~IsOk(t) THEN t
    ELSE Ok([frame_type |-> FRAME_TYPES[frame_type], version |-> version,
             pmu_id_code |-> pmu_id_code,
             soc |-> t.val.soc, frasec |-> t.val.frasec])

\* CommonFrame.__init__(frame_type, pmu_id_code, soc, frasec, version=1):
\* the common fields, or the error raised.
CommonFrame_init(frame_type, pmu_id_code, soc, frasec, version, clock) ==
    IF frame_type \notin DOMAIN FRAME_TYPES
    THEN FrameError("Unknown frame type")
    ELSE IF ~(1 <= version /\ version <= 15)
    THEN FrameError("VERSION number out of range")
    ELSE IF ~(1 <= pmu_id_code /\ pmu_id_code <= 65534)
    THEN FrameError("ID CODE out of range")
    ELSE CommonFields(frame_type, pmu_id_code, version,
                      IF Truthy(soc) \/ Truthy(frasec)
                      THEN CommonFrame_set_time(soc, frasec, clock)
                      ELSE Ok([soc |-> PyNone, frasec |-> PyNone]))

\* The time fields CommonFrame.convert2bytes encodes: the frame's own, or the
\* wall clock when both are missing or both are zero (lines 617-620).
EncodeTime(f, clock) ==
    IF (f.soc.t = "None" /\ f.frasec.t = "None")
       \/ (~Truthy(f.soc) /\ ~Truthy(f.frasec))
    THEN CommonFrame_set_time(PyNone, PyNone, clock)
    ELSE Ok([soc |-> f.soc, frasec |-> f.frasec])

\* A sender that starts the CRC register at zero
WithChk_init0(body) == Ok(body \o ToBytes(crc16xmodem(body, 0), 2))

\* body followed by its CRC (lines 629-631)
WithChk(body) == Ok(body \o ToBytes(crc16xmodem(body, 65535), 2))

\* The frame with time fields t around byte_message (lines 607-631)
Envelope(f, byte_message, t) ==
    IF ~IsOk(t) THEN t
    ELSE WithChk(ToBytes(BitOr(BitOr(Shl(170, 8), Shl(f.frame_type, 4)), f.version), 2)
                 \o ToBytes(16 + Len(byte_message), 2)
                 \o ToBytes(f.pmu_id_code, 2)
                 \o ToBytes(t.val.soc.v, 4)
                 \o ToBytes(t.val.frasec.v, 4)
                 \o byte_message)

\* CommonFrame.convert2bytes(self, byte_message)
CommonFrame_convert2bytes(f, byte_message, clock) ==
    Envelope(f, byte_message, EncodeTime(f, clock))


-----------------------------------------------------------------------------
(* DataFrame: the STAT word                                                *)

\* DataFrame.MEASUREMENT_STATUS, TIME_QUALITY, UNLOCKED_TIME, TRIGGER_REASON
MEASUREMENT_STATUS == ("ok" :> 0) @@ ("error" :> 1) @@ ("test" :> 2) @@ ("verror" :> 3)
TIME_QUALITY ==
    ("n/a" :> 0) @@ ("<100ns" :> 1) @@ ("<1us" :> 2) @@ ("<10us" :> 3) @@
    ("<100us" :> 4) @@ ("<1ms" :> 5) @@ ("<10ms" :> 6) @@ (">10ms" :> 7)
UNLOCKED_TIME == ("<10" :> 0) @@ ("<100" :> 1) @@ ("<1000" :> 2) @@ (">1000" :> 3)
TRIGGER_REASON ==
    ("manual" :> 0) @@ ("magnitude_low" :> 1) @@ ("magnitude_high" :> 2) @@
    ("phase_angle_diff" :> 3) @@ ("frequency_high_or_log" :> 4) @@
    ("df/dt_high" :> 5) @@ ("reserved" :> 6) @@ ("digital" :> 7)

\* The inverted dictionaries (..._WORDS): code -> word
Invert(d) == [c \in {d[w] : w \in DOMAIN d} |-> CHOOSE w \in DOMAIN d : d[w] = c]
MEASUREMENT_STATUS_WORDS == Invert(MEASUREMENT_STATUS)
TIME_QUALITY_WORDS == Invert(TIME_QUALITY)
UNLOCKED_TIME_WORDS == Invert(UNLOCKED_TIME)
TRIGGER_REASON_WORDS == Invert(TRIGGER_REASON)

StatTuple(ms, sync, sorting, trigger, cfg_change, modified, tq, unlocked, reason) ==
    [measurement_status |-> ms, sync |-> sync, sorting |-> sorting, trigger |-> trigger,
     cfg_change |-> cfg_change, modified |-> modified, time_quality |-> tq,
     unlocked |-> unlocked, trigger_reason |-> reason]

\* "if isinstance(x, str): x = DICT[x]": the code of a word, an int as it is
Lookup(dict, x) ==
    IF x.t = "str"
    THEN IF x.w \in DOMAIN dict THEN Ok(dict[x.w]) ELSE Raised("KeyError", x.w)
    ELSE Ok(x.v)

\* DataFrame._stat2int
stat2int(st) ==
    LET ms == Lookup(MEASUREMENT_STATUS, st.measurement_status)
        tq == Lookup(TIME_QUALITY, st.time_quality)
        un == Lookup(UNLOCKED_TIME, st.unlocked)
        tr == Lookup(TRIGGER_REASON, st.trigger_reason)
    IN  IF ~IsOk(ms) THEN ms
        ELSE IF ~IsOk(tq) THEN tq
        ELSE IF ~IsOk(un) THEN un
        ELSE IF ~IsOk(tr) THEN tr
        ELSE LET s0 == Shl(ms.val, 2)
                 s1 == Shl(IF ~st.sync THEN BitOr(s0, 1) ELSE s0, 1)
                 s2 == Shl(IF st.sorting # "timestamp" THEN BitOr(s1, 1) ELSE s1, 1)
                 s3 == Shl(IF st.trigger THEN BitOr(s2, 1) ELSE s2, 1)
                 s4 == Shl(IF st.cfg_change THEN BitOr(s3, 1) ELSE s3, 1)
                 s5 == Shl(IF st.modified THEN BitOr(s4, 1) ELSE s4, 3)
                 s6 == Shl(BitOr(s5, tq.val), 2)
                 s7 == Shl(BitOr(s6, un.val), 4)
             IN  Ok(BitOr(s7, tr.val))

\* DataFrame._int2stat
int2stat(stat) ==
    LET ms == Shr(stat, 15)
        tq == BitAnd(stat, 448)
        un == BitAnd(stat, 48)
        tr == BitAnd(stat, 15)
    IN  IF ms \notin DOMAIN MEASUREMENT_STATUS_WORDS THEN Raised("KeyError", "status")
        ELSE IF tq \notin DOMAIN TIME_QUALITY_WORDS THEN Raised("KeyError", "time_quality")
        ELSE IF un \notin DOMAIN UNLOCKED_TIME_WORDS THEN Raised("KeyError", "unlocked")
        ELSE IF tr \notin DOMAIN TRIGGER_REASON_WORDS THEN Raised("KeyError", "trigger_reason")
        ELSE Ok(StatTuple(PyStr(MEASUREMENT_STATUS_WORDS[ms]),
                          PyBool(BitAnd(stat, 8192)),
                          IF BitAnd(stat, 4096) # 0 THEN "arrival" ELSE "timestamp",
                          PyBool(BitAnd(stat, 2048)),
                          PyBool(BitAnd(stat, 1024)),
                          PyBool(BitAnd(stat, 512)),
                          PyStr(TIME_QUALITY_WORDS[tq]),
                          PyStr(UNLOCKED_TIME_WORDS[un]),
                          PyStr(TRIGGER_REASON_WORDS[tr])))

\* One element of DataFrame.set_stat: a tuple goes through _stat2int, an int
\* through the range check 0 <= stat <= 65536.
set_stat_el(stat_el) ==
    IF stat_el.t = "tuple" THEN stat2int(stat_el.items)
    ELSE IF ~(0 <= stat_el.v /\ stat_el.v <= 65536)
    THEN Raised("ValueError", "STAT out of range")
    ELSE Ok(stat_el.v)


-----------------------------------------------------------------------------
(* DataFrame: measurements.  A frame holds one block per stream; the code  *)
(* holds a bare block when the configuration has one stream and a list of  *)
(* blocks otherwise, and treats both shapes alike.                         *)

\* The outcomes of a sequence of steps: the first error, or the values
AllOk(outs) ==
    IF \E i \in DOMAIN outs : ~IsOk(outs[i])
    THEN outs[CHOOSE i \in DOMAIN outs :
                  ~IsOk(outs[i]) /\ \A j \in DOMAIN outs : j < i => IsOk(outs[j])]
    ELSE Ok([i \in DOMAIN outs |-> outs[i].val])

\* A Python float whose value is the dyadic rational m * 2^e, with m odd (or
\* m = 0 and e = 0).  The inputs of the model are floats that an IEEE-754
\* single holds exactly (|m| < 2^24, normal exponent), so packing does not
\* round.
Dy(m, e) == [m |-> m, e |-> e]

RECURSIVE Normalised(_, _)
Normalised(m, e) ==
    IF m = 0 THEN Dy(0, 0)
    ELSE IF m % 2 = 0 THEN Normalised(m \div 2, e + 1)
    ELSE Dy(m, e)

RECURSIVE BitLength(_)
BitLength(n) == IF n = 0 THEN 0 ELSE 1 + BitLength(n \div 2)

\* lo/d <= x <= hi/d for a float x and integers lo, hi, d
FloatWithin(x, lo, hi, d) ==
    IF x.e >= 0
    THEN lo <= d * x.m * Pow2(x.e) /\ d * x.m * Pow2(x.e) <= hi
    ELSE lo * Pow2(-x.e) <= d * x.m /\ d * x.m <= hi * Pow2(-x.e)

\* struct.pack("!f", x): sign bit, biased exponent, 23 bits of fraction
pack_f(x) ==
    LET a == Abs(x.m)
        k == BitLength(a) - 1
        biased == k + x.e + 127
        mant == (a - Pow2(k)) * Pow2(23 - k)
        sign == IF x.m < 0 THEN 128 ELSE 0
    IN  IF a = 0 THEN <<0, 0, 0, 0>>
        ELSE <<sign + biased \div 2, (biased % 2) * 128 + mant \div 65536,
               (mant \div 256) % 256, mant % 256>>

\* struct.unpack("!f", b)[0] of four bytes that hold zero or a normal number
unpack_f(b) ==
    LET negative == b[1] >= 128
        biased == (b[1] % 128) * 2 + b[2] \div 128
        mant == (b[2] % 128) * 65536 + b[3] * 256 + b[4]
        v == Normalised(8388608 + mant, biased - 150)
    IN  IF biased = 0 /\ mant = 0 THEN Dy(0, 0)
        ELSE IF negative THEN Dy(-v.m, v.e) ELSE v

\* struct.unpack("!I", struct.pack("!f", float(x)))[0]
float2word(x) == FromBytes(pack_f(x))

\* struct.unpack("!f", struct.pack("!I", w))[0]
word2float(w) == unpack_f(ToBytes(w, 4))

\* struct.pack("!h", x) and struct.pack("!H", x)
pack_h(x) ==
    IF -32768 <= x /\ x <= 32767 THEN Ok(ToBytes(ToUnsigned16(x), 2))
    ELSE Raised("struct.error", "short format requires -32768 <= number <= 32767")
pack_H(x) ==
    IF 0 <= x /\ x <= 65535 THEN Ok(ToBytes(x, 2))
    ELSE Raised("struct.error", "ushort format requires 0 <= number <= 65535")

\* DataFrame._phasor2int: the packed phasor, held as its four bytes (16-bit
\* integer formats) or eight bytes (floating point formats)
phasor2int(phasor, data_format) ==
    LET fmt == int2format(data_format)
    IN  IF fmt.polar /\ fmt.phasor_float
        THEN IF ~FloatWithin(phasor[2], -3142, 3142, 1000)
             THEN Raised("ValueError", "Angle must be in range -3.14 <= ANGLE <= 3.14")
             ELSE Ok(pack_f(phasor[1]) \o pack_f(phasor[2]))
        ELSE IF fmt.phasor_float
        THEN Ok(pack_f(phasor[1]) \o pack_f(phasor[2]))
        ELSE IF fmt.polar
        THEN IF ~(0 <= phasor[1] /\ phasor[1] <= 65535)
             THEN Raised("ValueError", "Magnitude must be 16-bit unsigned integer")
             ELSE IF ~(-31416 <= phasor[2] /\ phasor[2] <= 31416)
             THEN Raised("ValueError", "Angle must be 16-bit signed integer")
             ELSE Ok(pack_H(phasor[1]).val \o pack_h(phasor[2]).val)
        ELSE IF ~((-32767 <= phasor[1] /\ phasor[1] <= 32767)
                  \/ (-32767 <= phasor[2] /\ phasor[2] <= 32767))
             THEN Raised("ValueError", "Real and imaginary value must be 16-bit signed integers")
             ELSE LET re == pack_h(phasor[1])
                      im == pack_h(phasor[2])
                  IN  IF ~IsOk(re) THEN re
                      ELSE IF ~IsOk(im) THEN im
                      ELSE Ok(re.val \o im.val)

\* DataFrame._int2phasor, on the bytes of the packed phasor
int2phasor(phasor, data_format) ==
    LET fmt == int2format(data_format)
        hi == FromBytes(SubSeq(phasor, 1, 2))
        lo == FromBytes(SubSeq(phasor, 3, 4))
    IN  IF fmt.phasor_float
        THEN <<unpack_f(SubSeq(phasor, 1, 4)), unpack_f(SubSeq(phasor, 5, 8))>>
        ELSE IF fmt.polar THEN <<hi, ToSigned16(lo)>>
        ELSE <<ToSigned16(hi), ToSigned16(lo)>>

\* DataFrame._freq2int and DataFrame._int2freq.  A floating point FREQ is
\* a float, a 16-bit FREQ an int.
freq2int(freq, data_format) ==
    IF int2format(data_format).freq_float
    THEN IF ~FloatWithin(freq, -32767, 32767, 1000)
         THEN Raised("ValueError", "FREQ must be in range -32.767 <= FREQ <= 32.767.")
         ELSE Ok(float2word(freq))
    ELSE IF ~(-32767 <= freq /\ freq <= 32767)
    THEN Raised("ValueError", "FREQ must be 16-bit signed integer")
    ELSE Ok(ToUnsigned16(freq))
int2freq(freq, data_format) ==
    IF int2format(data_format).freq_float THEN word2float(freq)
    ELSE ToSigned16(freq)

\* DataFrame._dfreq2int and DataFrame._int2dfreq
dfreq2int(dfreq, data_format) ==
    IF int2format(data_format).freq_float THEN Ok(float2word(dfreq))
    ELSE IF ~(-32767 <= dfreq /\ dfreq <= 32767)
    THEN Raised("ValueError", "DFREQ must be 16-bit signed integer")
    ELSE Ok(ToUnsigned16(dfreq))
int2dfreq(dfreq, data_format) ==
    IF int2format(data_format).freq_float THEN word2float(dfreq)
    ELSE ToSigned16(dfreq)

\* DataFrame._analog2int and DataFrame._int2analog
analog2int(analog, data_format) ==
    IF int2format(data_format).analog_float THEN Ok(float2word(analog))
    ELSE IF ~(-32767 <= analog /\ analog <= 32767)
    THEN Raised("ValueError", "ANALOG must be in range")
    ELSE Ok(ToUnsigned16(analog))
int2analog(analog, data_format) ==
    IF int2format(data_format).analog_float THEN word2float(analog)
    ELSE ToSigned16(analog)

\* DataFrame._digital2int
digital2int(digital) ==
    IF ~(-32767 <= digital /\ digital <= 65535)
    THEN Raised("ValueError", "DIGITAL must be 16 bit word")
    ELSE LET b == pack_H(digital) IN IF IsOk(b) THEN Ok(FromBytes(b.val)) ELSE b

\* DataFrame.set_stat
set_stat(c, stat) ==
    IF Len(stat) # c.num_pmu THEN Raised("TypeError", "STAT")
    ELSE AllOk([i \in DOMAIN stat |-> set_stat_el(stat[i])])

\* DataFrame.set_phasors
set_phasors(c, phasors) ==
    IF Len(phasors) # c.num_pmu THEN Raised("TypeError", "PHASORS")
    ELSE AllOk([i \in DOMAIN phasors |->
            IF Len(phasors[i]) # c.phasor_num[i] THEN Raised("TypeError", "PHASOR_NUM")
            ELSE AllOk([j \in DOMAIN phasors[i] |->
                            phasor2int(phasors[i][j], c.data_format[i])])])

\* DataFrame.set_freq, set_dfreq
set_freq(c, freq) ==
    IF Len(freq) # c.num_pmu THEN Raised("TypeError", "FREQ")
    ELSE AllOk([i \in DOMAIN freq |-> freq2int(freq[i], c.data_format[i])])
set_dfreq(c, dfreq) ==
    IF Len(dfreq) # c.num_pmu THEN Raised("TypeError", "DFREQ")
    ELSE AllOk([i \in DOMAIN dfreq |-> dfreq2int(dfreq[i], c.data_format[i])])

\* DataFrame.set_analog
set_analog(c, analog) ==
    IF Len(analog) # c.num_pmu THEN Raised("TypeError", "ANALOG")
    ELSE AllOk([i \in DOMAIN analog |->
            IF Len(analog[i]) # c.analog_num[i] THEN Raised("TypeError", "ANALOG_NUM")
            ELSE AllOk([j \in DOMAIN analog[i] |->
                            analog2int(analog[i][j], c.data_format[i])])])

\* DataFrame.set_digital
set_digital(c, digital) ==
    IF Len(digital) # c.num_pmu THEN Raised("TypeError", "DIGITAL")
    ELSE AllOk([i \in DOMAIN digital |->
            IF Len(digital[i]) # c.digital_num[i] THEN Raised("TypeError", "DIGITAL_NUM")
            ELSE AllOk([j \in DOMAIN digital[i] |-> digital2int(digital[i][j])])])

\* The arguments of DataFrame.__init__ other than cfg
DataArgs(id, stat, phasors, freq, dfreq, analog, digital, soc, frasec) ==
    [pmu_id_code |-> id, stat |-> stat, phasors |-> phasors, freq |-> freq,
     dfreq |-> dfreq, analog |-> analog, digital |-> digital, soc |-> soc,
     frasec |-> frasec]

\* The frame the setters leave, or the first error one of them raises
DataFields(c, common, st, ph, fr, df, an, dg) ==
    IF ~IsOk(common) THEN common
    ELSE IF ~IsOk(st) THEN st
    ELSE IF ~IsOk(ph) THEN ph
    ELSE IF ~IsOk(fr) THEN fr
    ELSE IF ~IsOk(df) THEN df
    ELSE IF ~IsOk(an) THEN an
    ELSE IF ~IsOk(dg) THEN dg
    ELSE Ok([frame_type |-> common.val.frame_type, version |-> common.val.version,
             pmu_id_code |-> common.val.pmu_id_code,
             soc |-> common.val.soc, frasec |-> common.val.frasec,
             cfg |-> c, stat |-> st.val, phasors |-> ph.val, freq |-> fr.val,
             dfreq |-> df.val, analog |-> an.val, digital |-> dg.val,
             payload |-> <<>>])

\* DataFrame.__init__: the frame, or the first error a setter raises
DataFrame_init(a, c, clock) ==
    IF c.t # "cfg" THEN FrameError("CFG should describe current data stream")
    ELSE DataFields(c,
                    CommonFrame_init("data", a.pmu_id_code, a.soc, a.frasec, 1, clock),
                    set_stat(c, a.stat), set_phasors(c, a.phasors),
                    set_freq(c, a.freq), set_dfreq(c, a.dfreq),
                    set_analog(c, a.analog), set_digital(c, a.digital))

\* DataFrame.get_freq, get_dfreq, get_analog, get_digital
get_freq(f) == [i \in 1..f.cfg.num_pmu |-> int2freq(f.freq[i], f.cfg.data_format[i])]
get_dfreq(f) == [i \in 1..f.cfg.num_pmu |-> int2dfreq(f.dfreq[i], f.cfg.data_format[i])]
get_analog(f) ==
    [i \in 1..f.cfg.num_pmu |->
        [j \in DOMAIN f.analog[i] |-> int2analog(f.analog[i][j], f.cfg.data_format[i])]]
get_digital(f) == f.digital

\* A rational number
Rat(n, d) == [num |-> n, den |-> d]

\* fnom + freq / 1000 (lines 1184 and 1195), as the exact rational; the
\* double the code returns is the one nearest to it
NominalPlusThousandth(fnom, freq, data_format) ==
    IF ~int2format(data_format).freq_float THEN Rat(1000 * fnom + freq, 1000)
    ELSE IF freq.e >= 0 THEN Rat(1000 * fnom + freq.m * Pow2(freq.e), 1000)
    ELSE Rat(1000 * fnom * Pow2(-freq.e) + freq.m, 1000 * Pow2(-freq.e))

\* What cfg.get_fnom() returns for a stream.  ConfigFrame is not in
\* example_data_frame.py; the nominal frequency is 50 Hz or 60 Hz.
NominalFrequencies == {50, 60}

\* ph * unit * 0.00001 (lines 842 and 854), as the exact rational
Scaled(ph, unit) == Rat(ph * unit, 100000)

\* What cfg.get_ph_units() returns: a (factor, type) pair for every phasor.
\* ConfigFrame is not in example_data_frame.py; the factor is the 24-bit
\* conversion factor of PHUNIT, in 10^-5 units.
PhasorFactors == {1000, 50000}
PhUnits(c, factor) ==
    [i \in 1..c.num_pmu |-> [j \in 1..c.phasor_num[i] |-> <<factor, "v">>]]

\* DataFrame.get_phasors(convert2polar=True): every component of a 16-bit
\* phasor is scaled by the unit of the phasor; a rectangular phasor is then
\* turned into (sqrt(re^2 + im^2), atan2(im, re)), which the model keeps as
\* the pair of arguments of each function.
get_phasors(f, ph_units) ==
    [i \in 1..f.cfg.num_pmu |->
        [j \in DOMAIN f.phasors[i] |->
            LET fmt == int2format(f.cfg.data_format[i])
                ph == int2phasor(f.phasors[i][j], f.cfg.data_format[i])
                sc == IF ~fmt.phasor_float
                      THEN <<Scaled(ph[1], ph_units[i][j][1]),
                             Scaled(ph[2], ph_units[i][j][1])>>
                      ELSE ph
            IN  IF ~fmt.polar
                THEN <<[sqrt_sum_squares |-> sc], [atan2 |-> <<sc[2], sc[1]>>]>>
                ELSE sc]]

\* DataFrame.get_measurements, given the nominal frequency of each stream
\* and the units of its phasors: the phasors, frequency, rocof, analog and
\* digital entries of every measurement.  The stream id, the stat and the
\* time go through getters of ConfigFrame and are left out of the record.
get_measurements(f, fnom, ph_units) ==
    [pmu_id |-> f.pmu_id_code,
     measurements |->
        [i \in 1..f.cfg.num_pmu |->
            [phasors |-> get_phasors(f, ph_units)[i],
             analog |-> get_analog(f)[i],
             digital |-> get_digital(f)[i],
             frequency |-> NominalPlusThousandth(fnom[i], get_freq(f)[i],
                                                 f.cfg.data_format[i]),
             rocof |-> get_dfreq(f)[i]]]]


-----------------------------------------------------------------------------
(* DataFrame: encoding and decoding                                        *)

RECURSIVE Concat(_)
Concat(ss) == IF Len(ss) = 0 THEN <<>> ELSE Head(ss) \o Concat(Tail(ss))

\* int.to_bytes(width, "big"): OverflowError when the int does not fit (the
\* ints of the model are below 2^31 and fit four bytes)
to_bytes(n, width) ==
    IF 0 <= n /\ (width >= 4 \/ n < Pow2(8 * width)) THEN Ok(ToBytes(n, width))
    ELSE Raised("OverflowError", "int too big to convert")

\* synchrophasor.utils.list2bytes on a list of 16-bit ints
list2bytes(xs, width) == AllOk([j \in DOMAIN xs |-> to_bytes(xs[j], width)])

\* A packed phasor written on width bytes: the int of its bytes, to_bytes
rewidth(b, width) ==
    IF Len(b) <= width
    THEN Ok([k \in 1..width |-> IF k <= width - Len(b) THEN 0
                                ELSE b[k - (width - Len(b))]])
    ELSE IF \A k \in 1..(Len(b) - width) : b[k] = 0
    THEN Ok(SubSeq(b, Len(b) - width + 1, Len(b)))
    ELSE Raised("OverflowError", "int too big to convert")

\* The fields of one block joined, or the first error among them
Block(st, ph, fr, df, an, dg) ==
    IF ~IsOk(st) THEN st
    ELSE IF ~IsOk(ph) THEN ph
    ELSE IF ~IsOk(fr) THEN fr
    ELSE IF ~IsOk(df) THEN df
    ELSE IF ~IsOk(an) THEN an
    ELSE IF ~IsOk(dg) THEN dg
    ELSE Ok(st.val \o Concat(ph.val) \o fr.val \o df.val
            \o Concat(an.val) \o Concat(dg.val))

\* The block of stream i with the widths of its format
SizedBlock(f, i, size) ==
    Block(to_bytes(f.stat[i], 2),
          AllOk([j \in DOMAIN f.phasors[i] |-> rewidth(f.phasors[i][j], size.phasor)]),
          to_bytes(f.freq[i], size.freq), to_bytes(f.dfreq[i], size.freq),
          list2bytes(f.analog[i], size.analog), list2bytes(f.digital[i], 2))

\* The block of stream i in DataFrame.convert2bytes (lines 1213-1216 and
\* 1224-1229)
StreamBytes(f, i) == SizedBlock(f, i, get_data_format_size(f.cfg.data_format[i]))

\* The blocks joined and wrapped by CommonFrame.convert2bytes (line 1236)
Wrapped(f, blocks, clock) ==
    IF ~IsOk(blocks) THEN blocks
    ELSE CommonFrame_convert2bytes(f, Concat(blocks.val), clock)

\* DataFrame.convert2bytes
DataFrame_convert2bytes(f, clock) ==
    Wrapped(f, AllOk([i \in 1..f.cfg.num_pmu |-> StreamBytes(f, i)]), clock)

\* x.to_bytes(n, "big") of an int read from at most n bytes: left-padded
PadLeft(b, n) == [k \in 1..n |-> IF k <= n - Len(b) THEN 0 ELSE b[k - (n - Len(b))]]

\* The widths and offsets the decoder walks through for a stream of format
\* fmt that starts at byte offset start (lines 1265-1304 and 1307-1340)
Layout(fmt, phasor_num, analog_num, digital_num, start) ==
    [stat0 |-> start,
     ph0 |-> start + 2,
     phasor_size |-> IF fmt.phasor_float THEN 8 ELSE 4,
     fr0 |-> start + 2 + phasor_num * (IF fmt.phasor_float THEN 8 ELSE 4),
     freq_size |-> IF fmt.freq_float THEN 4 ELSE 2,
     analog_size |-> IF fmt.analog_float THEN 4 ELSE 2,
     analog_num |-> analog_num, digital_num |-> digital_num]

Offsets(L) ==
    [stat0 |-> L.stat0, ph0 |-> L.ph0, phasor_size |-> L.phasor_size,
     fr0 |-> L.fr0, df0 |-> L.fr0 + L.freq_size, freq_size |-> L.freq_size,
     an0 |-> L.fr0 + 2 * L.freq_size, analog_size |-> L.analog_size,
     dg0 |-> L.fr0 + 2 * L.freq_size + L.analog_num * L.analog_size,
     end |-> L.fr0 + 2 * L.freq_size + L.analog_num * L.analog_size
             + L.digital_num * 2]

StreamLayout(c, i, start) ==
    Offsets(Layout(int2format(c.data_format[i]), c.phasor_num[i], c.analog_num[i],
                   c.digital_num[i], start))

\* start_byte of stream i: 14 plus the blocks before it
RECURSIVE StreamStart(_, _)
StreamStart(c, i) ==
    IF i = 1 THEN 14 ELSE StreamLayout(c, i - 1, StreamStart(c, i - 1)).end

\* The measurements of a stream laid out as L, its STAT decoded as st
StreamFields(byte_data, c, i, L, st) ==
    IF ~IsOk(st) THEN st
    ELSE Ok([stat |-> PyTuple(st.val),
             phasors |-> [j \in 1..c.phasor_num[i] |->
                 int2phasor(PadLeft(Slice(byte_data,
                                          L.ph0 + (j - 1) * L.phasor_size,
                                          L.ph0 + j * L.phasor_size),
                                    L.phasor_size),
                            c.data_format[i])],
             freq |-> int2freq(FromBytes(Slice(byte_data, L.fr0, L.fr0 + L.freq_size)),
                               c.data_format[i]),
             dfreq |-> int2dfreq(FromBytes(Slice(byte_data, L.df0, L.df0 + L.freq_size)),
                                 c.data_format[i]),
             analog |-> [j \in 1..c.analog_num[i] |->
                 int2analog(FromBytes(Slice(byte_data,
                                            L.an0 + (j - 1) * L.analog_size,
                                            L.an0 + j * L.analog_size)),
                            c.data_format[i])],
             digital |-> [j \in 1..c.digital_num[i] |->
                 FromBytes(Slice(byte_data, L.dg0 + (j - 1) * 2, L.dg0 + j * 2))]])

StatAt(byte_data, L) == int2stat(FromBytes(Slice(byte_data, L.stat0, L.stat0 + 2)))

LaidOut(byte_data, c, i, L) == StreamFields(byte_data, c, i, L, StatAt(byte_data, L))

\* The measurements of stream i as the decoder reads them off the bytes
DecodeStream(byte_data, c, i) ==
    LaidOut(byte_data, c, i, StreamLayout(c, i, StreamStart(c, i)))

\* "except Exception as error: raise FrameError(...)": FrameError itself is
\* a BaseException and passes through
WrapException(r) ==
    IF IsOk(r) \/ r.err = "FrameError" THEN r
    ELSE FrameError("Error while creating Data frame")

\* DataFrame(pmu_code, stat, phasors, freq, dfreq, analog, digital, cfg, soc,
\* frasec) on the decoded measurements m (line 1342)
Rebuilt(pmu_code, m, soc, frasec, c, clock) ==
    DataFrame_init(DataArgs(pmu_code,
                            [i \in DOMAIN m |-> m[i].stat],
                            [i \in DOMAIN m |-> m[i].phasors],
                            [i \in DOMAIN m |-> m[i].freq],
                            [i \in DOMAIN m |-> m[i].dfreq],
                            [i \in DOMAIN m |-> m[i].analog],
                            [i \in DOMAIN m |-> m[i].digital],
                            PyInt(soc), PyTuple(frasec)),
                   c, clock)

Decoded(byte_data, streams, c, clock) ==
    IF ~IsOk(streams) THEN streams
    ELSE Rebuilt(FromBytes(Slice(byte_data, 4, 6)), streams.val,
                 FromBytes(Slice(byte_data, 6, 10)),
                 CommonFrame_int2frasec(FromBytes(Slice(byte_data, 10, 14))),
                 c, clock)

\* A decoder that falls back on a one-phasor, one-analog configuration when
\* it is given none
FallbackCfg == [t |-> "cfg", num_pmu |-> 1, data_format |-> <<0>>,
                phasor_num |-> <<1>>, analog_num |-> <<1>>, digital_num |-> <<0>>]
DataFrame_convert2frame_fallback(byte_data, c, clock) ==
    IF ~check_crc(byte_data) THEN FrameError("CRC failed")
    ELSE WrapException(
             Decoded(byte_data,
                     AllOk([i \in 1..1 |->
                               DecodeStream(byte_data,
                                            IF c.t # "cfg" THEN FallbackCfg ELSE c, i)]),
                     IF c.t # "cfg" THEN FallbackCfg ELSE c, clock))

\* DataFrame.convert2frame(byte_data, cfg)
DataFrame_convert2frame(byte_data, c, clock) ==
    IF ~check_crc(byte_data) THEN FrameError("CRC failed")
    ELSE IF c.t # "cfg" THEN WrapException(Raised("AttributeError", "get_num_pmu"))
    ELSE WrapException(
             Decoded(byte_data,
                     AllOk([i \in 1..c.num_pmu |-> DecodeStream(byte_data, c, i)]),
                     c, clock))

\* HeaderFrame / ConfigFrame1 / ConfigFrame2 / CommandFrame / ConfigFrame3
\* .convert2frame(byte_data): the envelope and the payload carried through
OtherFrame_convert2frame(byte_data) ==
    Ok([frame_type |-> Shr(byte_data[2], 4), version |-> byte_data[2] % 16,
        pmu_id_code |-> FromBytes(Slice(byte_data, 4, 6)),
        soc |-> PyInt(FromBytes(Slice(byte_data, 6, 10))),
        frasec |-> PyInt(FromBytes(Slice(byte_data, 10, 14))),
        cfg |-> PyNone, stat |-> <<>>, phasors |-> <<>>, freq |-> <<>>,
        dfreq |-> <<>>, analog |-> <<>>, digital |-> <<>>,
        payload |-> Slice(byte_data, 14, Len(byte_data) - 2)])

\* The keys of convert_method in CommonFrame.convert2frame
ConvertMethodKeys == {0, 1, 2, 3, 4, 5}

\* A dispatcher that goes by the type nibble without checking the CRC
CommonFrame_convert2frame_unchecked(byte_data, c, clock) ==
    IF Len(byte_data) < 2 THEN Raised("IndexError", "index out of range")
    ELSE IF Shr(byte_data[2], 4) = 0 THEN DataFrame_convert2frame(byte_data, c, clock)
    ELSE IF Shr(byte_data[2], 4) \notin ConvertMethodKeys
    THEN Raised("KeyError", "frame_type")
    ELSE OtherFrame_convert2frame(byte_data)

\* CommonFrame.convert2frame(byte_data, cfg=None): the dispatcher
CommonFrame_convert2frame(byte_data, c, clock) ==
    IF ~check_crc(byte_data) THEN FrameError("CRC failed")
    ELSE IF Len(byte_data) < 2 THEN Raised("IndexError", "index out of range")
    ELSE LET frame_type == Shr(byte_data[2], 4)
         IN  IF frame_type = 0 THEN DataFrame_convert2frame(byte_data, c, clock)
             ELSE IF frame_type \notin ConvertMethodKeys
             THEN Raised("KeyError", "frame_type")
             ELSE OtherFrame_convert2frame(byte_data)

\* CommonFrame.extract_frame_type(byte_data)
extract_frame_type(byte_data) ==
    IF ~check_crc(byte_data) THEN FrameError("CRC failed")
    ELSE IF Len(byte_data) < 2 THEN Raised("IndexError", "index out of range")
    ELSE LET frame_type == Shr(byte_data[2], 4)
         IN  IF frame_type \notin DOMAIN FRAME_TYPES_WORDS
             THEN Raised("KeyError", "frame_type")
             ELSE Ok(FRAME_TYPES_WORDS[frame_type])


-----------------------------------------------------------------------------
(* The FRASEC scenario: pack a tuple, unpack the word                      *)

\* Bounds of the inputs
MaxTimeQuality == 16
Fractions == {0, 1, 500000, 8388607, 8388608, 16777215, 16777216}
LeapDirs == {"+", "-", "x"}

Blank == [kind |-> "none"]

\* A packer that leaves the reserved bit set: the word has bit 31, which as
\* a 32-bit signed integer is the word less 2^32
CommonFrame_pack_unpack_reserved(a) ==
    LET w == CommonFrame_set_frasec(a.fr_seconds, a.leap_dir, a.leap_occ, a.leap_pen,
                                    a.time_quality)
    IN  IF IsOk(w)
        THEN [kind |-> "ok", word |-> (w.val - Pow2(30)) - Pow2(30),
              val |-> CommonFrame_int2frasec(w.val)]
        ELSE w

\* CommonFrame.set_frasec then CommonFrame.get_frasec
CommonFrame_pack_unpack(a) ==
    LET w == CommonFrame_set_frasec(a.fr_seconds, a.leap_dir, a.leap_occ, a.leap_pen,
                                    a.time_quality)
    IN  IF IsOk(w)
        THEN [kind |-> "ok", word |-> w.val, val |-> CommonFrame_int2frasec(w.val)]
        ELSE w

\* udp_payloads.set_frasec then udp_payloads.int2frasec
payloads_pack_unpack(a) ==
    LET w == payloads_set_frasec(a.fr_seconds, a.leap_dir, a.leap_occ, a.leap_pen,
                                 a.time_quality)
    IN  [kind |-> "ok", word |-> w, val |-> payloads_int2frasec(w)]

PackCommon ==
    /\ fcommon = Blank
    /\ fcommon' = CommonFrame_pack_unpack(fin)
    /\ UNCHANGED <<fin, fpayload, cvars, svars, kvars>>

PackPayloads ==
    /\ fpayload = Blank
    /\ fpayload' = payloads_pack_unpack(fin)
    /\ UNCHANGED <<fin, fcommon, cvars, svars, kvars>>


-----------------------------------------------------------------------------
(* The codec scenario: build a frame, encode it, deliver the bytes (as     *)
(* they are, corrupted, forged or cut), peek at the type, decode, encode   *)
(* the decoded frame again.                                                *)

\* Bounds of the inputs
MaxDigital == 1

\* The configuration of cfg: counts and format flags per stream
Config(n, fmts, phs, ans, dgs) ==
    [t |-> "cfg", num_pmu |-> n, data_format |-> fmts, phasor_num |-> phs,
     analog_num |-> ans, digital_num |-> dgs]

Cfgs ==
    { Config(1, <<fmt>>, <<1>>, <<1>>, <<dg>>) : fmt \in {0, 1}, dg \in 0..MaxDigital }
    \cup { Config(2, <<1, 0>>, <<1, 0>>, <<0, 1>>, <<0, 0>>) }

DefaultStat ==
    StatTuple(PyStr("ok"), TRUE, "timestamp", FALSE, FALSE, FALSE, PyInt(5),
              PyStr("<10"), PyInt(0))

StatInputs == {PyInt(0), PyInt(8192), PyTuple(DefaultStat)}
PhasorInputs(fmt) ==
    IF int2format(fmt).polar THEN {<<12345, 31415>>, <<30000, -31415>>}
    ELSE {<<3, -4>>, <<-32767, 0>>}
FreqInputs == {2500, -1}
DfreqInputs == {100}
AnalogInputs == {-123}
DigitalInputs == {43690}
TimeInputs ==
    { <<PyInt(1610612736), PyTuple(FrasecTuple(500000, "+", FALSE, FALSE, 5))>>,
      <<PyInt(1610612736), PyInt(8388609)>>,
      <<PyNone, PyNone>> }

\* The argument tuples a frame can be built from against configuration c
DataInputs(c) ==
    { DataArgs(7, st, ph, fr, df, an, dg, tm[1], tm[2]) :
        st \in [1..c.num_pmu -> StatInputs],
        ph \in { p \in [1..c.num_pmu -> UNION {[1..k -> PhasorInputs(f)] :
                                                  k \in 0..1, f \in {0, 1}}] :
                   \A i \in 1..c.num_pmu :
                       /\ Len(p[i]) = c.phasor_num[i]
                       /\ \A j \in 1..Len(p[i]) :
                              p[i][j] \in PhasorInputs(c.data_format[i]) },
        fr \in [1..c.num_pmu -> FreqInputs],
        df \in [1..c.num_pmu -> DfreqInputs],
        an \in { q \in [1..c.num_pmu -> UNION {[1..k -> AnalogInputs] : k \in 0..1}] :
                   \A i \in 1..c.num_pmu : Len(q[i]) = c.analog_num[i] },
        dg \in { q \in [1..c.num_pmu ->
                           UNION {[1..k -> DigitalInputs] : k \in 0..MaxDigital}] :
                   \A i \in 1..c.num_pmu : Len(q[i]) = c.digital_num[i] },
        tm \in TimeInputs }

\* DataFrame(pmu_id_code, stat, phasors, freq, dfreq, analog, digital, cfg,
\* soc, frasec)
BuildData ==
    /\ cpc = "start"
    /\ \E c \in Cfgs : \E a \in DataInputs(c) :
          /\ cfg' = c
          /\ frame' = DataFrame_init(a, c, now)
    /\ cpc' = "built"
    /\ UNCHANGED <<now, enc, wire, dcfg, dec, peek, measured, stat_codec, given, rewire, fvars, svars, kvars>>

\* A header, configuration or command frame: the common fields and a payload
OtherTypes == {"header", "cfg1", "cfg2", "cmd", "cfg3", "bogus"}
Payloads == { <<>>, <<72, 69, 76, 76, 79>> }

OtherFrame_init(frame_type, pmu_id_code, soc, frasec, byte_message, clock) ==
    LET common == CommonFrame_init(frame_type, pmu_id_code, soc, frasec, 1, clock)
    IN  IF ~IsOk(common) THEN common
        ELSE Ok([frame_type |-> common.val.frame_type, version |-> common.val.version,
                 pmu_id_code |-> common.val.pmu_id_code,
                 soc |-> common.val.soc, frasec |-> common.val.frasec,
                 cfg |-> PyNone, stat |-> <<>>, phasors |-> <<>>, freq |-> <<>>,
                 dfreq |-> <<>>, analog |-> <<>>, digital |-> <<>>,
                 payload |-> byte_message])

BuildOther ==
    /\ cpc = "start"
    /\ \E ft \in OtherTypes, id \in {7, 0}, tm \in TimeInputs, pl \in Payloads :
          frame' = OtherFrame_init(ft, id, tm[1], tm[2], pl, now)
    /\ cfg' = PyNone
    /\ cpc' = "built"
    /\ UNCHANGED <<now, enc, wire, dcfg, dec, peek, measured, stat_codec, given, rewire, fvars, svars, kvars>>

\* frame.convert2bytes()
Frame_convert2bytes(f, clock) ==
    IF f.frame_type = 0 THEN DataFrame_convert2bytes(f, clock)
    ELSE CommonFrame_convert2bytes(f, f.payload, clock)

Encode ==
    /\ cpc = "built"
    /\ IsOk(frame)
    /\ enc' = Frame_convert2bytes(frame.val, now)
    /\ cpc' = "encoded"
    /\ UNCHANGED <<cfg, now, frame, wire, dcfg, dec, peek, measured, stat_codec, given, rewire, fvars, svars, kvars>>

\* The wall clock moves on
Tick ==
    /\ cpc = "built"
    /\ now = [soc |-> 1700000000, frac |-> 250000]
    /\ now' = [soc |-> 1700000001, frac |-> 5]
    /\ UNCHANGED <<cpc, cfg, frame, enc, wire, dcfg, dec, peek, measured, stat_codec, given, rewire, fvars, svars, kvars>>

\* Configurations over every FORMAT word and the values a stream of each
\* format is given: floats where the format says floating point, ints
\* otherwise.  FREQ, DFREQ and ANALOG floats are kept non-negative, so that
\* the 32-bit word of each stays below 2^31.
MaxFormat == 15
FormatCfgs ==
    { Config(1, <<fmt>>, <<ph>>, <<an>>, <<dg>>) :
        fmt \in 0..MaxFormat, ph \in 1..2, an \in 0..1, dg \in 0..1 }
    \cup { Config(2, <<15, 1>>, <<1, 1>>, <<1, 1>>, <<1, 0>>) }

PhasorValues(fmt) ==
    IF int2format(fmt).phasor_float
    THEN IF int2format(fmt).polar
         THEN {<<Dy(461, -1), Dy(1, -1)>>, <<Dy(1, 0), Dy(-3, 0)>>, <<Dy(1, 0), Dy(1, 2)>>}
         ELSE {<<Dy(3, 0), Dy(-1, 2)>>, <<Dy(-5, -3), Dy(0, 0)>>}
    ELSE PhasorInputs(fmt)
FreqValues(fmt) ==
    IF int2format(fmt).freq_float THEN {Dy(0, 0), Dy(1, -1), Dy(25, 0), Dy(25, 1)}
    ELSE FreqInputs
DfreqValues(fmt) == IF int2format(fmt).freq_float THEN {Dy(1, -2)} ELSE DfreqInputs
AnalogValues(fmt) == IF int2format(fmt).analog_float THEN {Dy(5, -1)} ELSE AnalogInputs

\* One value per stream of c, the values of stream i drawn from S(i)
PerStream(c, S(_)) ==
    IF c.num_pmu = 1 THEN { <<a>> : a \in S(1) }
    ELSE { <<a, b>> : a \in S(1), b \in S(2) }

FormatInputs(c) ==
    LET Ph(i) == [1..c.phasor_num[i] -> PhasorValues(c.data_format[i])]
        Fr(i) == FreqValues(c.data_format[i])
        Df(i) == DfreqValues(c.data_format[i])
        An(i) == [1..c.analog_num[i] -> AnalogValues(c.data_format[i])]
        Dg(i) == [1..c.digital_num[i] -> DigitalInputs]
    IN  { DataArgs(7, [i \in 1..c.num_pmu |-> PyTuple(DefaultStat)], ph, fr, df, an, dg,
                   PyInt(1610612736), PyInt(8388609)) :
            ph \in PerStream(c, Ph), fr \in PerStream(c, Fr), df \in PerStream(c, Df),
            an \in PerStream(c, An), dg \in PerStream(c, Dg) }

\* DataFrame(...) against a configuration of any format
BuildFormats ==
    /\ cpc = "formats"
    /\ \E c \in FormatCfgs : \E a \in FormatInputs(c) :
          /\ cfg' = c
          /\ frame' = DataFrame_init(a, c, now)
    /\ cpc' = "built"
    /\ UNCHANGED <<now, enc, wire, dcfg, dec, peek, measured, stat_codec, given, rewire, fvars, svars, kvars>>

\* frame.get_measurements()
GetMeasurements ==
    /\ cpc \in {"built", "encoded"}
    /\ IsOk(frame)
    /\ frame.val.frame_type = 0
    /\ measured = Blank
    /\ \E fnom \in [1..cfg.num_pmu -> NominalFrequencies], factor \in PhasorFactors :
          measured' = Ok(get_measurements(frame.val, fnom, PhUnits(cfg, factor)))
    /\ UNCHANGED <<cpc, cfg, now, frame, enc, wire, dcfg, dec, peek, stat_codec, given, rewire, fvars, svars, kvars>>

\* The times a caller hands to a constructor: none, zero, and values the
\* wall clock of the model never shows
GivenSocs == {PyNone, PyInt(0), PyInt(1), PyInt(1610612736)}
GivenFrasecs ==
    {PyNone, PyInt(0), PyInt(5), PyInt(16777215),
     PyTuple(FrasecTuple(0, "+", FALSE, FALSE, 5)),
     PyTuple(FrasecTuple(500000, "-", TRUE, FALSE, 5))}

\* HeaderFrame(...) or CommandFrame(...) with a time of the caller's
BuildTimed ==
    /\ cpc = "timed"
    /\ \E ft \in {"header", "cmd"}, soc \in GivenSocs, frasec \in GivenFrasecs :
          /\ frame' = OtherFrame_init(ft, 7, soc, frasec, <<72, 73>>, now)
          /\ given' = [kind |-> "time", soc |-> soc, frasec |-> frasec]
    /\ cfg' = PyNone
    /\ cpc' = "built"
    /\ UNCHANGED <<now, enc, wire, dcfg, dec, peek, measured, stat_codec, rewire, fvars, svars, kvars>>

\* Values at and beyond the edges of the wire fields, for a stream of one
\* phasor, one analog and one digital in the two 16-bit integer formats
EdgeCfgs == { Config(1, <<fmt>>, <<1>>, <<1>>, <<1>>) : fmt \in {0, 1} }
EdgeStats ==
    {PyInt(65535), PyInt(65536), PyInt(65537), PyTuple(DefaultStat),
     PyTuple([DefaultStat EXCEPT !.measurement_status = PyStr("test")])}
EdgePhasors(fmt) ==
    IF int2format(fmt).polar THEN {<<65535, 31416>>, <<65536, 0>>, <<1, -31417>>}
    ELSE {<<3, -4>>, <<-32768, 0>>, <<40000, 0>>, <<40000, 40000>>}
EdgeFreqs == {32767, -32768}
EdgeAnalogs == {-32767, 32768}
EdgeDigitals == {65535, -1, 65536}
EdgeInputs(c) ==
    { DataArgs(7, <<st>>, <<<<ph>>>>, <<fr>>, <<100>>, <<<<an>>>>, <<<<dg>>>>,
               PyInt(1610612736), PyInt(8388609)) :
        st \in EdgeStats, ph \in EdgePhasors(c.data_format[1]), fr \in EdgeFreqs,
        an \in EdgeAnalogs, dg \in EdgeDigitals }

\* DataFrame(...) on values at the edges of the fields
BuildEdge ==
    /\ cpc = "edge"
    /\ \E c \in EdgeCfgs : \E a \in EdgeInputs(c) :
          /\ cfg' = c
          /\ frame' = DataFrame_init(a, c, now)
          /\ given' = [kind |-> "data", args |-> a]
    /\ cpc' = "built"
    /\ UNCHANGED <<now, enc, wire, dcfg, dec, peek, measured, stat_codec, rewire, fvars, svars, kvars>>

\* The STAT tuples of the standard: a status word, the flags, and the
\* buckets of time quality, unlocked time and trigger reason as codes
StatTuples ==
    { StatTuple(PyStr(ms), sync, sorting, trigger, cfg_change, modified, PyInt(tq),
                PyInt(un), PyInt(tr)) :
        ms \in DOMAIN MEASUREMENT_STATUS, sync \in BOOLEAN,
        sorting \in {"timestamp", "arrival"}, trigger \in BOOLEAN,
        cfg_change \in BOOLEAN, modified \in BOOLEAN, tq \in 0..7, un \in 0..3,
        tr \in 0..7 }

\* DataFrame._stat2int(*t)
Stat2Int ==
    /\ cpc = "stat"
    /\ stat_codec = Blank
    /\ \E t \in StatTuples :
          stat_codec' = [kind |-> "word", tuple |-> t, word |-> stat2int(t)]
    /\ UNCHANGED <<cpc, cfg, now, frame, enc, wire, dcfg, dec, peek, measured, given, rewire, fvars, svars, kvars>>

\* DataFrame._int2stat(word)
Int2Stat ==
    /\ cpc = "stat"
    /\ stat_codec.kind = "word"
    /\ IsOk(stat_codec.word)
    /\ stat_codec' = [kind |-> "back", tuple |-> stat_codec.tuple,
                      word |-> stat_codec.word,
                      back |-> int2stat(stat_codec.word.val)]
    /\ UNCHANGED <<cpc, cfg, now, frame, enc, wire, dcfg, dec, peek, measured, given, rewire, fvars, svars, kvars>>

\* The datagram arrives as sent
DeliverIntact ==
    /\ cpc = "encoded"
    /\ IsOk(enc)
    /\ wire' = enc.val
    /\ cpc' = "wire"
    /\ UNCHANGED <<cfg, now, frame, enc, dcfg, dec, peek, measured, stat_codec, given, rewire, fvars, svars, kvars>>

\* b with bit k of byte i (0-based) flipped
FlipBit(b, i, k) ==
    [b EXCEPT ![i + 1] = IF (b[i + 1] \div Pow2(k)) % 2 = 1
                         THEN b[i + 1] - Pow2(k) ELSE b[i + 1] + Pow2(k)]

\* A bit is flipped in transit
DeliverCorrupt ==
    /\ cpc = "encoded"
    /\ IsOk(enc)
    /\ \E i \in {1, Len(enc.val) - 1} : wire' = FlipBit(enc.val, i, 3)
    /\ cpc' = "wire"
    /\ UNCHANGED <<cfg, now, frame, enc, dcfg, dec, peek, measured, stat_codec, given, rewire, fvars, svars, kvars>>

\* b with its last two bytes replaced by the CRC of the rest
Resign(b) == AllButLast2(b) \o ToBytes(crc16xmodem(AllButLast2(b), 65535), 2)

\* A sender that writes the type nibble itself and signs the frame
ForgedTypes == {0, 1, 6, 15}
DeliverForged ==
    /\ cpc = "encoded"
    /\ IsOk(enc)
    /\ \E n \in ForgedTypes :
          wire' = Resign([enc.val EXCEPT ![2] = n * 16 + (enc.val[2] % 16)])
    /\ cpc' = "wire"
    /\ UNCHANGED <<cfg, now, frame, enc, dcfg, dec, peek, measured, stat_codec, given, rewire, fvars, svars, kvars>>

\* Only the first bytes of the datagram arrive
CutLengths == {0, 1, 2, 14}
DeliverCut ==
    /\ cpc = "encoded"
    /\ IsOk(enc)
    /\ \E n \in CutLengths : wire' = Slice(enc.val, 0, n)
    /\ cpc' = "wire"
    /\ UNCHANGED <<cfg, now, frame, enc, dcfg, dec, peek, measured, stat_codec, given, rewire, fvars, svars, kvars>>

\* CommonFrame.extract_frame_type(wire)
Peek ==
    /\ cpc = "wire"
    /\ peek' = extract_frame_type(wire)
    /\ cpc' = "peeked"
    /\ UNCHANGED <<cfg, now, frame, enc, wire, dcfg, dec, measured, stat_codec, given, rewire, fvars, svars, kvars>>

\* The configurations a receiver may hold: the sender's, none, or one that
\* declares a second phasor
WiderCfg == Config(1, <<0>>, <<2>>, <<1>>, <<0>>)
DecoderCfgs(c) == {c, PyNone, WiderCfg}

\* CommonFrame.convert2frame(wire, cfg)
Decode ==
    /\ cpc = "peeked"
    /\ \E c \in DecoderCfgs(cfg) :
          /\ dcfg' = c
          /\ dec' = CommonFrame_convert2frame(wire, c, now)
    /\ cpc' = "decoded"
    /\ UNCHANGED <<cfg, now, frame, enc, wire, peek, measured, stat_codec, given, rewire, fvars, svars, kvars>>

\* decoded.convert2bytes()
Reencode ==
    /\ cpc = "decoded"
    /\ IsOk(dec)
    /\ rewire' = Frame_convert2bytes(dec.val, now)
    /\ cpc' = "done"
    /\ UNCHANGED <<cfg, now, frame, enc, wire, dcfg, dec, peek, measured, stat_codec, given, fvars, svars, kvars>>


-----------------------------------------------------------------------------
(* TimeSeriesAnalyzer.  The code computes the estimators in binary         *)
(* floating point; the model computes the same expressions over the        *)
(* rationals (EWMA as a reduced fraction, 0.2 as 1/5, 0.6 as 12/20, 0.05   *)
(* as 1/20) and truncates toward zero where the code applies int().        *)

ClientBufferSize == 500
GlobalBufferSize == 2000
KalmanP0 == 1000000
KalmanR == 2000000
KalmanQ == 10000
BiasPacket == 30


\* int(n / d) for d > 0: truncation toward zero
TruncDiv(n, d) == IF n >= 0 THEN n \div d ELSE -((-n) \div d)

\* <<q, r>> with a * b = q * c + r and 0 <= r < c, for a, b >= 0 and c > 0,
\* computed without forming a * b
RECURSIVE MulDivMod(_, _, _)
MulDivMod(a, b, c) ==
    IF a = 0 THEN <<0, 0>>
    ELSE LET h == MulDivMod(a \div 2, b, c)
             add == IF a % 2 = 1 THEN b ELSE 0
             t == 2 * h[2] + (add % c)
         IN  <<2 * h[1] + (add \div c) + (t \div c), t % c>>

\* int(x + a * b / c) for integers x, a, b with a >= 0 and c > 0
TruncAddMulDiv(x, a, b, c) ==
    LET m == MulDivMod(a, Abs(b), c)
        exact == m[2] = 0
        fl == IF b >= 0 THEN m[1] ELSE IF exact THEN -m[1] ELSE -m[1] - 1
        v == x + fl
    IN  IF v >= 0 \/ exact THEN v ELSE v + 1

RECURSIVE Reduce5(_, _)
Reduce5(n, d) ==
    IF d > 1 /\ n % 5 = 0 THEN Reduce5(n \div 5, d \div 5) ELSE [t |-> "num", n |-> n, d |-> d]

\* TimeSeriesAnalyzer.__init__(buffer_size, alpha=0.2)
TimeSeriesAnalyzer(buffer_size) ==
    [maxlen |-> buffer_size, timing_data |-> <<>>, packet_count |-> 0,
     ewma_pred |-> PyNone, kalman_est |-> PyNone, kalman_P |-> KalmanP0,
     pid_integral |-> 0, pid_prev_err |-> PyNone, pid_pred |-> 0]

\* A full buffer that keeps what it has and loses the new entry
DequeAppend_keep_oldest(q, maxlen, x) ==
    IF Len(q) >= maxlen THEN q ELSE Append(q, x)

\* deque(maxlen).append
DequeAppend(q, maxlen, x) ==
    IF Len(q) >= maxlen THEN Append(Tail(q), x) ELSE Append(q, x)

\* self.alpha * s + (1 - self.alpha) * self.ewma_pred, or s the first time
EwmaUpdate(ewma_pred, s) ==
    IF ewma_pred.t = "None" THEN [t |-> "num", n |-> s, d |-> 1]
    ELSE Reduce5(s * ewma_pred.d + 4 * ewma_pred.n, 5 * ewma_pred.d)

\* int(x) of the EWMA prediction
EwmaInt(ewma_pred) == TruncDiv(ewma_pred.n, ewma_pred.d)

\* The Kalman step (lines 63-71) from estimate x_pred and variance P_pred on
\* measurement z: K = P_pred / (P_pred + R)
KalmanUpdate(x_pred, P_pred, z) ==
    [est |-> TruncAddMulDiv(x_pred, P_pred, z - x_pred, P_pred + KalmanR),
     P |-> MulDivMod(KalmanR, P_pred, P_pred + KalmanR)[1]]

\* int(kp * error_us + ki * pid_integral + kd * derivative) with kd = 0
PidPred(error_us, pid_integral) == TruncDiv(12 * error_us + pid_integral, 20)

\* The analyzer after the sample is stored with its predictions (lines 80-86)
Stored(an, soc_diff, fracsec_diff, total_microsec_diff, ewma, kalman, pid_integral) ==
    [maxlen |-> an.maxlen,
     timing_data |->
         DequeAppend(an.timing_data, an.maxlen,
                     [soc_diff |-> soc_diff, fracsec_diff |-> fracsec_diff,
                      total_microsec_diff |-> total_microsec_diff,
                      packet_num |-> an.packet_count,
                      ewma_pred_us |-> EwmaInt(ewma),
                      kalman_pred_us |-> kalman.est,
                      pid_pred_us |-> PidPred(total_microsec_diff, pid_integral),
                      scheme |-> "", corrected_us |-> 0]),
     packet_count |-> an.packet_count + 1,
     ewma_pred |-> ewma, kalman_est |-> PyInt(kalman.est), kalman_P |-> kalman.P,
     pid_integral |-> pid_integral, pid_prev_err |-> PyInt(total_microsec_diff),
     pid_pred |-> PidPred(total_microsec_diff, pid_integral)]

\* Estimators whose Kalman estimate starts from 0 and not from the first
\* sample
Estimated_cold(an, soc_diff, fracsec_diff, total_microsec_diff) ==
    Stored(an, soc_diff, fracsec_diff, total_microsec_diff,
           EwmaUpdate(an.ewma_pred, total_microsec_diff),
           KalmanUpdate(IF an.kalman_est.t = "None" THEN 0 ELSE an.kalman_est.v,
                        an.kalman_P + KalmanQ, total_microsec_diff),
           an.pid_integral + total_microsec_diff)

\* The estimator updates on a sample of total_microsec_diff (lines 56-78)
Estimated(an, soc_diff, fracsec_diff, total_microsec_diff) ==
    Stored(an, soc_diff, fracsec_diff, total_microsec_diff,
           EwmaUpdate(an.ewma_pred, total_microsec_diff),
           KalmanUpdate(IF an.kalman_est.t = "None" THEN total_microsec_diff
                        ELSE an.kalman_est.v,
                        an.kalman_P + KalmanQ, total_microsec_diff),
           an.pid_integral + total_microsec_diff)

\* TimeSeriesAnalyzer.add_measurement(soc_diff, fracsec_diff)
add_measurement(an, soc_diff, fracsec_diff) ==
    Estimated(an, soc_diff, fracsec_diff, (soc_diff * 1000000) + fracsec_diff)

\* predicted_offset_us, kalman_offset_us, pid_offset_us
predicted_offset_us(an) == IF an.ewma_pred.t # "None" THEN EwmaInt(an.ewma_pred) ELSE 0
kalman_offset_us(an) == IF an.kalman_est.t # "None" THEN an.kalman_est.v ELSE 0
pid_offset_us(an) == an.pid_pred


-----------------------------------------------------------------------------
(* UDP_server and the receive loop of udp_server_main                      *)

\* A datagram: its length in bytes and, when it has the 16 bytes of
\* '!HHHIIH', the six fields struct.unpack returns
Datagram(len, sync, size, idcode, soc, fracsec, chk) ==
    [len |-> len, SYNC |-> sync, FRAME_SIZE |-> size, IDCODE |-> idcode,
     SOC |-> soc, FRACSEC |-> fracsec, CHK |-> chk]

\* struct.pack('!HHHIIH', ...): the 16 bytes of a datagram
pack_HHHIIH(d) ==
    ToBytes(d.SYNC, 2) \o ToBytes(d.FRAME_SIZE, 2) \o ToBytes(d.IDCODE, 2)
    \o ToBytes(d.SOC, 4) \o ToBytes(d.FRACSEC, 4) \o ToBytes(d.CHK, 2)

\* UDP_server.recv_bytes: struct.unpack('!HHHIIH', data_recvd)
recv_bytes(d) ==
    IF d.len = 16 THEN Ok(d)
    ELSE Raised("struct.error", "unpack requires a buffer of 16 bytes")

\* UDP_server.time_diff_calc(data_pack) at server clock reading clock
time_diff_calc(data_pack, clock) ==
    LET diff_SOC == clock.soc - data_pack.SOC
        diff_FRACSEC == clock.frac - data_pack.FRACSEC
    IN  IF diff_FRACSEC < -1000000 THEN <<diff_SOC - 1, diff_FRACSEC + 1000000>>
        ELSE IF diff_FRACSEC > 1000000 THEN <<diff_SOC + 1, diff_FRACSEC - 1000000>>
        ELSE <<diff_SOC, diff_FRACSEC>>

\* A scheme table that counts the schemes from zero
scheme_of_zero_based(scheme_id) ==
    CASE scheme_id = 0 -> "raw"
      [] scheme_id = 1 -> "ewma"
      [] scheme_id = 2 -> "kalman"
      [] scheme_id = 3 -> "pid"
      [] OTHER -> "raw"

\* scheme_map.get(scheme_id, 'raw')
scheme_of(scheme_id) ==
    CASE scheme_id = 1 -> "raw"
      [] scheme_id = 2 -> "ewma"
      [] scheme_id = 3 -> "kalman"
      [] scheme_id = 4 -> "pid"
      [] OTHER -> "raw"

\* The analyzer whose outputs the reply is taken from (lines 446-448)
ReplyAnalyzer(global, client) == global

\* timing_data[-1]['scheme'], ['corrected_us'] = scheme, chosen_us
Annotate(an, scheme, chosen_us) ==
    IF Len(an.timing_data) = 0 THEN an
    ELSE [an EXCEPT !.timing_data[Len(an.timing_data)] =
              [@ EXCEPT !.scheme = scheme, !.corrected_us = chosen_us]]

\* An analyzer after the add_measurement calls of one iteration
\* (lines 398-399 and 443-444)
UpdateAnalyzer(an, td) ==
    add_measurement(add_measurement(an, td[1], td[2]), td[1], td[2])

\* client_bias_us after lines 386-388
BiasAfter(bias, sender_key, packet_count, raw_us) ==
    IF sender_key \in DOMAIN bias THEN bias ELSE (sender_key :> PyNone) @@ bias

NoReply == [kind |-> "none"]
NoLast ==
    [kind |-> "none", from |-> "", raw_us |-> 0, scheme |-> "", packet |-> 0,
     ewma_us |-> 0, kalm_us |-> 0, pid_us |-> 0, own_ewma_us |-> 0,
     own_kalm_us |-> 0, own_pid_us |-> 0, bias |-> PyNone, dgram |-> PyNone]

\* udp_server_main past its start: socket bound, console-only plot choice
Running ==
    [program |-> "main", bound |-> "bound", plot_choice |-> "4", snapshots |-> 0,
     plots |-> 0, exit_status |-> PyNone]

\* The state of the server process when the loop is entered (lines 343-371)
ServerInit ==
    [spc |-> "loop",
     global_analyzer |-> TimeSeriesAnalyzer(GlobalBufferSize),
     client_analyzers |-> <<>>, client_packet_count |-> <<>>, client_bias_us |-> <<>>,
     sqn_num |-> 0, sender_addr |-> "127.0.0.1", reply |-> NoReply,
     received |-> 0, last |-> NoLast]

\* dict[key] after "if key not in client_analyzers: dict[key] = v"
FirstContact(client_analyzers_, dict, key, v) ==
    IF key \in DOMAIN client_analyzers_ THEN dict ELSE (key :> v) @@ dict

\* client_packet_count after lines 380-384
Counted(client_analyzers_, counts, key) ==
    [FirstContact(client_analyzers_, counts, key, 0) EXCEPT ![key] = @ + 1]

\* scheme_value_map.get(scheme, raw_us) (lines 450-451)
SchemeValue(scheme, raw_us, ewma_us, kalm_us, pid_us) ==
    CASE scheme = "raw" -> raw_us
      [] scheme = "ewma" -> ewma_us
      [] scheme = "kalman" -> kalm_us
      [] scheme = "pid" -> pid_us
      [] OTHER -> raw_us

\* chosen_us after lines 454-455
BiasApplied(scheme, bias_us, chosen_us) ==
    IF scheme \in {"ewma", "kalman", "pid"} /\ bias_us.t # "None"
    THEN chosen_us - bias_us.v
    ELSE chosen_us

\* The process after the reply is sent (lines 457-474)
Sent(S, sender_key, scheme, raw_us, counts, global, client, bias, ewma_us, kalm_us, pid_us, chosen_us) ==
    [spc |-> S.spc,
     global_analyzer |-> Annotate(global, scheme, chosen_us),
     client_analyzers |->
         (sender_key :> Annotate(client, scheme, chosen_us)) @@ S.client_analyzers,
     client_packet_count |-> counts,
     client_bias_us |-> bias,
     sqn_num |-> S.sqn_num + 1,
     sender_addr |-> sender_key,
     reply |-> [kind |-> "reply", to |-> sender_key, ack_num |-> S.sqn_num,
                scheme |-> scheme, correction_us |-> chosen_us],
     received |-> S.received + 1,
     last |-> [kind |-> "replied", from |-> sender_key, raw_us |-> raw_us,
               scheme |-> scheme, packet |-> counts[sender_key],
               ewma_us |-> ewma_us, kalm_us |-> kalm_us, pid_us |-> pid_us,
               own_ewma_us |-> predicted_offset_us(client),
               own_kalm_us |-> kalman_offset_us(client),
               own_pid_us |-> pid_offset_us(client),
               bias |-> bias[sender_key], dgram |-> PyNone]]

\* The correction chosen from the three estimates (lines 450-455)
Corrected(S, sender_key, scheme, raw_us, counts, global, client, bias, ewma_us, kalm_us, pid_us) ==
    Sent(S, sender_key, scheme, raw_us, counts, global, client, bias,
         ewma_us, kalm_us, pid_us,
         BiasApplied(scheme, bias[sender_key],
                     SchemeValue(scheme, raw_us, ewma_us, kalm_us, pid_us)))

\* The three estimates read off analyzer src (lines 446-448)
Estimates(S, sender_key, scheme, raw_us, counts, global, client, bias, src) ==
    Corrected(S, sender_key, scheme, raw_us, counts, global, client, bias,
              predicted_offset_us(src), kalman_offset_us(src), pid_offset_us(src))

\* The iteration once both analyzers hold the sample (lines 441-448)
Measured(S, sender_key, scheme, raw_us, counts, global, client) ==
    Estimates(S, sender_key, scheme, raw_us, counts, global, client,
              BiasAfter(S.client_bias_us, sender_key, counts[sender_key], raw_us),
              ReplyAnalyzer(global, client))

\* The iteration on an unpacked datagram (lines 377-444)
Accepted(S, sender_key, scheme, time_diff_tuple) ==
    Measured(S, sender_key, scheme,
             (time_diff_tuple[1] * 1000000) + time_diff_tuple[2],
             Counted(S.client_analyzers, S.client_packet_count, sender_key),
             UpdateAnalyzer(S.global_analyzer, time_diff_tuple),
             UpdateAnalyzer(FirstContact(S.client_analyzers, S.client_analyzers,
                                         sender_key,
                                         TimeSeriesAnalyzer(ClientBufferSize))[sender_key],
                            time_diff_tuple))

\* A loop that numbers the datagrams it drops as well
Iteration_counts_drops(S, e, data_rcvd, clock) ==
    IF ~IsOk(data_rcvd)
    THEN [S EXCEPT !.sender_addr = e, !.reply = NoReply,
                   !.received = S.received + 1, !.sqn_num = S.sqn_num + 1,
                   !.last = [NoLast EXCEPT !.kind = "dropped", !.from = e]]
    ELSE [Accepted(S, e, scheme_of(data_rcvd.val.IDCODE),
                   time_diff_calc(data_rcvd.val, clock))
             EXCEPT !.last.dgram = data_rcvd.val]

\* A loop without the struct.error handler: the exception ends the process
Iteration_uncaught(S, e, data_rcvd, clock) ==
    IF ~IsOk(data_rcvd)
    THEN [S EXCEPT !.spc = "stopped", !.sender_addr = e, !.reply = NoReply,
                   !.received = S.received + 1,
                   !.last = [NoLast EXCEPT !.kind = "dropped", !.from = e]]
    ELSE [Accepted(S, e, scheme_of(data_rcvd.val.IDCODE),
                   time_diff_calc(data_rcvd.val, clock))
             EXCEPT !.last.dgram = data_rcvd.val]

\* A loop that registers the sender before it unpacks the datagram
Iteration_registers_drops(S, e, data_rcvd, clock) ==
    IF ~IsOk(data_rcvd)
    THEN [S EXCEPT !.sender_addr = e, !.reply = NoReply,
                   !.received = S.received + 1,
                   !.client_analyzers =
                       FirstContact(S.client_analyzers, S.client_analyzers, e,
                                    TimeSeriesAnalyzer(ClientBufferSize)),
                   !.client_packet_count =
                       Counted(S.client_analyzers, S.client_packet_count, e),
                   !.last = [NoLast EXCEPT !.kind = "dropped", !.from = e]]
    ELSE [Accepted(S, e, scheme_of(data_rcvd.val.IDCODE),
                   time_diff_calc(data_rcvd.val, clock))
             EXCEPT !.last.dgram = data_rcvd.val]

\* A loop that answers the address it held before this datagram came in
Iteration_answers_previous(S, e, data_rcvd, clock) ==
    IF ~IsOk(data_rcvd)
    THEN [S EXCEPT !.sender_addr = e, !.reply = NoReply,
                   !.received = S.received + 1,
                   !.last = [NoLast EXCEPT !.kind = "dropped", !.from = e]]
    ELSE [Accepted(S, e, scheme_of(data_rcvd.val.IDCODE),
                   time_diff_calc(data_rcvd.val, clock))
             EXCEPT !.last.dgram = data_rcvd.val, !.reply.to = S.sender_addr]

\* "except struct.error: continue" (lines 475-477), or the iteration
Iteration(S, e, data_rcvd, clock) ==
    IF ~IsOk(data_rcvd)
    THEN [S EXCEPT !.sender_addr = e, !.reply = NoReply,
                   !.received = S.received + 1,
                   !.last = [NoLast EXCEPT !.kind = "dropped", !.from = e]]
    ELSE [Accepted(S, e, scheme_of(data_rcvd.val.IDCODE),
                   time_diff_calc(data_rcvd.val, clock))
             EXCEPT !.last.dgram = data_rcvd.val]

\* One iteration of "while True" (lines 373-486) on datagram d from endpoint
\* e, read at server clock reading clock
loop_iteration(S, e, d, clock) == Iteration(S, e, recv_bytes(d), clock)

-----------------------------------------------------------------------------
(* The server scenarios                                                    *)

\* Bounds of the runs
MaxPackets == 3
MaxPairPackets == 2
MaxSteadyPackets == 31

Endpoints == {"A", "B"}
ServerClock == [soc |-> 100, frac |-> 500000]

\* A request as udp_payloads.common_frame_build packs it: scheme in IDCODE
Request(idcode, soc, fracsec) == Datagram(16, 43520, 16, idcode, soc, fracsec, 0)
\* A datagram too short for '!HHHIIH'
Runt == Datagram(10, 0, 0, 0, 0, 0, 0)

Requests(ids, stamps) == { Request(id, t[1], t[2]) : id \in ids, t \in stamps }

\* The CRC16 (init 0xFFFF) of the 14 bytes before CHK
Checksum(d) == crc16xmodem(Slice(pack_HHHIIH(d), 0, 14), 65535)
\* d with the CHK a sender that signs its datagrams would write
Signed(d) == [d EXCEPT !.CHK = Checksum(d)]

Traffic(es, ds, n) == [endpoints |-> es, datagrams |-> ds, limit |-> n]

NoTraffic == Traffic({}, {}, 0)

NoSeen == [e \in Endpoints |-> [n |-> 0, sum |-> 0, at30 |-> PyNone]]

\* The sample of datagram d read at clock
Sample(d, clock) ==
    LET td == time_diff_calc(d, clock) IN (td[1] * 1000000) + td[2]

\* The server process as one record, and back
Server ==
    [spc |-> spc, global_analyzer |-> global_analyzer,
     client_analyzers |-> client_analyzers,
     client_packet_count |-> client_packet_count,
     client_bias_us |-> client_bias_us, sqn_num |-> sqn_num,
     sender_addr |-> sender_addr, reply |-> reply, received |-> received,
     last |-> last]

Becomes(T) ==
    /\ spc' = T.spc
    /\ global_analyzer' = T.global_analyzer
    /\ client_analyzers' = T.client_analyzers
    /\ client_packet_count' = T.client_packet_count
    /\ client_bias_us' = T.client_bias_us
    /\ sqn_num' = T.sqn_num
    /\ sender_addr' = T.sender_addr
    /\ reply' = T.reply
    /\ received' = T.received
    /\ last' = T.last

\* The files the iteration writes once the sender's packet count is count:
\* timing_analysis.json every 50 packets (lines 404 and 432-433), a plot
\* every 20 packets under plot choice "2" (lines 437-438)
SnapshotEvery == 50
PlotEvery == 20
Periodic(P, count) ==
    [P EXCEPT !.snapshots = IF count % SnapshotEvery = 0 THEN @ + 1 ELSE @,
              !.plots = IF P.plot_choice = "2" /\ count % PlotEvery = 0
                        THEN @ + 1 ELSE @]

\* The main run takes datagram d from endpoint e
Take(e, d) ==
    /\ proc.program = "main"
    /\ Becomes(loop_iteration(Server, e, d, ServerClock))
    /\ proc' = IF d.len = 16
               THEN Periodic(proc, loop_iteration(Server, e, d, ServerClock)
                                       .client_packet_count[e])
               ELSE proc
    /\ seen' = IF d.len = 16
               THEN [seen EXCEPT ![e] =
                       [n |-> @.n + 1, sum |-> @.sum + Sample(d, ServerClock),
                        at30 |-> IF @.n + 1 = BiasPacket
                                 THEN PyInt(Sample(d, ServerClock)) ELSE @.at30]]
               ELSE seen

\* One iteration of the receive loop
Receive ==
    /\ spc = "loop"
    /\ received < traffic.limit
    /\ \E e \in traffic.endpoints, d \in traffic.datagrams : Take(e, d)
    /\ UNCHANGED <<traffic, run2, fvars, cvars, kvars>>

\* global_analyzer.create_time_plot(save_plot=True, show_plot=False): nothing
\* with fewer than two measurements (lines 155-157)
PlotSaved(P, an) ==
    IF Len(an.timing_data) < 2 THEN P ELSE [P EXCEPT !.plots = @ + 1]

\* KeyboardInterrupt (lines 478-483): the summary plot under plot choice "3",
\* break, and the end of the script
Interrupt ==
    /\ spc = "loop"
    /\ proc.program = "main"
    /\ spc' = "stopped"
    /\ proc' = [(IF proc.plot_choice = "3" THEN PlotSaved(proc, global_analyzer)
                 ELSE proc) EXCEPT !.exit_status = PyInt(0)]
    /\ UNCHANGED <<global_analyzer, client_analyzers, client_packet_count,
                   client_bias_us, sqn_num, sender_addr, reply, received, last,
                   seen, traffic, run2, fvars, cvars, kvars>>

\* Bounds of the runs from process start
MaxBootPackets == 2

\* UDP_server.__init__ (udp_server_class.py lines 36-40) called at line 341
\* of udp_server_main: bind, or print and exit(-1)
BindMain ==
    /\ spc = "boot"
    /\ proc.program = "main"
    /\ \E ok \in BOOLEAN :
          IF ok
          THEN /\ spc' = "prompt"
               /\ proc' = [proc EXCEPT !.bound = "bound"]
          ELSE /\ spc' = "exited"
               /\ proc' = [proc EXCEPT !.bound = "failed", !.exit_status = PyInt(255)]
    /\ UNCHANGED <<global_analyzer, client_analyzers, client_packet_count,
                   client_bias_us, sqn_num, sender_addr, reply, received, last,
                   seen, traffic, run2, fvars, cvars, kvars>>

\* input("Choose plotting option: ...") (line 362): the answer, or the end
\* of the input, which nothing catches
PlotChoices == {"1", "2", "3", "4"}
Prompt ==
    /\ spc = "prompt"
    /\ \/ \E choice \in PlotChoices :
             /\ spc' = "loop"
             /\ proc' = [proc EXCEPT !.plot_choice = choice]
       \/ /\ spc' = "exited"
          /\ proc' = [proc EXCEPT !.exit_status = PyInt(1)]
    /\ UNCHANGED <<global_analyzer, client_analyzers, client_packet_count,
                   client_bias_us, sqn_num, sender_addr, reply, received, last,
                   seen, traffic, run2, fvars, cvars, kvars>>

\* udp_simple_server lines 22-25: bind, or print "bind error" and go on
BindSimple ==
    /\ spc = "boot"
    /\ proc.program = "simple"
    /\ \E ok \in BOOLEAN :
          proc' = [proc EXCEPT !.bound = IF ok THEN "bound" ELSE "failed"]
    /\ spc' = "loop"
    /\ UNCHANGED <<global_analyzer, client_analyzers, client_packet_count,
                   client_bias_us, sqn_num, sender_addr, reply, received, last,
                   seen, traffic, run2, fvars, cvars, kvars>>

\* One pass of the loop of udp_simple_server (lines 47-67) on datagram d
\* from endpoint e: struct.unpack raises on a datagram that is not 16 bytes
\* long and nothing catches it; otherwise the sequence number goes up and is
\* sent back to addr_of_client
simple_iteration(S, e, d) ==
    IF ~IsOk(recv_bytes(d))
    THEN [S EXCEPT !.spc = "exited", !.reply = NoReply, !.received = S.received + 1,
                   !.last = [NoLast EXCEPT !.kind = "died", !.from = e]]
    ELSE [S EXCEPT !.sqn_num = S.sqn_num + 1,
                   !.reply = [kind |-> "reply", to |-> e, ack_num |-> S.sqn_num + 1,
                              scheme |-> "", correction_us |-> 0],
                   !.received = S.received + 1,
                   !.last = [NoLast EXCEPT !.kind = "replied", !.from = e]]

SimpleReceive ==
    /\ spc = "loop"
    /\ proc.program = "simple"
    /\ proc.bound = "bound"
    /\ received < traffic.limit
    /\ \E e \in traffic.endpoints, d \in traffic.datagrams :
          /\ Becomes(simple_iteration(Server, e, d))
          /\ proc' = IF d.len = 16 THEN proc ELSE [proc EXCEPT !.exit_status = PyInt(1)]
    /\ UNCHANGED <<seen, traffic, run2, fvars, cvars, kvars>>

\* recvfrom on the socket that was never bound: the call blocks for ever (no
\* step), or the platform refuses it with OSError, which nothing catches
SimpleReceiveUnbound ==
    /\ spc = "loop"
    /\ proc.program = "simple"
    /\ proc.bound = "failed"
    /\ spc' = "exited"
    /\ proc' = [proc EXCEPT !.exit_status = PyInt(1)]
    /\ UNCHANGED <<global_analyzer, client_analyzers, client_packet_count,
                   client_bias_us, sqn_num, sender_addr, reply, received, last,
                   seen, traffic, run2, fvars, cvars, kvars>>

\* Two runs of the server: endpoint "A" sends the same datagrams to both at
\* the same server times, the other endpoints send to each as they please
ReceiveBoth ==
    /\ spc = "loop" /\ run2.spc = "loop"
    /\ received < traffic.limit /\ run2.received < traffic.limit
    /\ \E d \in traffic.datagrams :
          /\ Take("A", d)
          /\ run2' = loop_iteration(run2, "A", d, ServerClock)
    /\ UNCHANGED <<traffic, fvars, cvars, kvars>>

ReceiveOther1 ==
    /\ spc = "loop"
    /\ received < traffic.limit
    /\ \E e \in traffic.endpoints \ {"A"}, d \in traffic.datagrams : Take(e, d)
    /\ UNCHANGED <<traffic, run2, fvars, cvars, kvars>>

ReceiveOther2 ==
    /\ run2.spc = "loop"
    /\ run2.received < traffic.limit
    /\ \E e \in traffic.endpoints \ {"A"}, d \in traffic.datagrams :
          run2' = loop_iteration(run2, e, d, ServerClock)
    /\ UNCHANGED <<spc, global_analyzer, client_analyzers, client_packet_count,
                   client_bias_us, proc, sqn_num, sender_addr, reply, received, last,
                   seen, traffic, fvars, cvars, kvars>>

\* Bounds of the queued run
MaxLivePackets == 3

\* The network with a record of the datagrams that reached the socket, in
\* order: the loop has taken the first `received` of them
LiveTraffic(es, ds, n) == [endpoints |-> es, datagrams |-> ds, limit |-> n, log |-> <<>>]

\* A datagram reaches the socket
Arrive ==
    /\ Len(traffic.log) < traffic.limit
    /\ \E e \in traffic.endpoints, d \in traffic.datagrams :
          traffic' = [traffic EXCEPT !.log = Append(@, [from |-> e, d |-> d])]
    /\ UNCHANGED <<spc, global_analyzer, client_analyzers, client_packet_count,
                   client_bias_us, proc, sqn_num, sender_addr, reply, received, last,
                   seen, run2, fvars, cvars, kvars>>

\* One iteration of the receive loop on the oldest datagram not yet taken
Serve ==
    /\ spc = "loop"
    /\ received < Len(traffic.log)
    /\ Take(traffic.log[received + 1].from, traffic.log[received + 1].d)
    /\ UNCHANGED <<traffic, run2, fvars, cvars, kvars>>

\* Serve as the counter of datagrams taken shows it: with a datagram waiting,
\* recv_bytes returns and the iteration runs to its end
ServeStep ==
    /\ spc = "loop"
    /\ received < Len(traffic.log)
    /\ received' = received + 1

\* Bounds of the stamping run
MaxStamped == 2

\* d with bits 30..24 of FRACSEC (leap flags and time quality) set to high;
\* bit 31 is left clear
WithFlags(d, high) == [d EXCEPT !.FRACSEC = (high * Pow2(24)) + (@ % Pow2(24))]

\* Flag patterns: none, time quality 5, leap direction, all seven bits
FlagInputs == {0, 5, 64, 127}

\* Datagrams stamped 100.500000 and 100.484375 under every flag pattern
StampedInputs ==
    { WithFlags(d, high) : d \in Requests({1, 2}, {<<100, 500000>>, <<100, 484375>>}),
                           high \in FlagInputs }

\* recv_bytes and time_diff_calc of the receive loop, at one reading of the
\* server clock; seen is the sequence of (datagram, time_diff_tuple) so far
Stamp ==
    /\ spc = "stamp"
    /\ Len(seen) < MaxStamped
    /\ \E d \in StampedInputs :
          seen' = Append(seen, [d |-> d, td |-> time_diff_calc(recv_bytes(d).val, ServerClock)])
    /\ UNCHANGED <<spc, global_analyzer, client_analyzers, client_packet_count,
                   client_bias_us, proc, sqn_num, sender_addr, reply, received, last,
                   traffic, run2, fvars, cvars, kvars>>

\* Bounds of the constant stream
MaxConstSteps == 20

\* (soc_diff, fracsec_diff) of the constant streams: samples of 1, -1, 7,
\* -250, 15625, -1000000 and 1500000 microseconds
ConstInputs ==
    { <<0, 1>>, <<0, -1>>, <<0, 7>>, <<0, -250>>, <<0, 15625>>, <<-1, 0>>,
      <<1, 500000>> }

\* analyzer.add_measurement(soc_diff, fracsec_diff) with the sample the stream
\* began with; seen is the sequence of the samples handed in
Feed ==
    /\ spc = "const"
    /\ Len(seen) < MaxConstSteps
    /\ \E td \in ConstInputs :
          /\ IF seen = <<>> THEN TRUE ELSE seen[1] = (td[1] * 1000000) + td[2]
          /\ global_analyzer' = add_measurement(global_analyzer, td[1], td[2])
          /\ seen' = Append(seen, (td[1] * 1000000) + td[2])
    /\ UNCHANGED <<spc, client_analyzers, client_packet_count, client_bias_us,
                   proc, sqn_num, sender_addr, reply, received, last, traffic, run2,
                   fvars, cvars, kvars>>

\* Bounds of the ring-buffer run
RingSize == 3
MaxRingCalls == 5

\* (soc_diff, fracsec_diff) pairs handed to add_measurement
RingInputs == { <<0, 15625>>, <<0, -250>>, <<1, 0>> }

\* analyzer.add_measurement(soc_diff, fracsec_diff) on an analyzer of buffer
\* size RingSize; seen is the sequence of the samples handed in
Measure ==
    /\ spc = "ring"
    /\ Len(seen) < MaxRingCalls
    /\ \E td \in RingInputs :
          /\ global_analyzer' = add_measurement(global_analyzer, td[1], td[2])
          /\ seen' = Append(seen, (td[1] * 1000000) + td[2])
    /\ UNCHANGED <<spc, client_analyzers, client_packet_count, client_bias_us,
                   proc, sqn_num, sender_addr, reply, received, last, traffic, run2,
                   fvars, cvars, kvars>>

-----------------------------------------------------------------------------
(* The time-sync clients.  udp_simple_client holds local_time_offset and   *)
(* total_corrections as floats in seconds; the model holds the same        *)
(* quantities over the rationals: a correction in microseconds, a          *)
(* round-trip time as the elapsed microseconds (the code's milliseconds    *)
(* times 1000), a compensated correction in half microseconds, a damping   *)
(* factor in tenths, and the offset in twentieths of a microsecond.        *)

ResetAfter == 15
ResetThresholdUs == 500000

\* Common_frame(SYNC, FRAME_SIZE, IDCODE, SOC, FRACSEC, CHK).build()
Common_frame_build(SYNC, FRAME_SIZE, IDCODE, SOC, FRACSEC, CHK) ==
    Datagram(16, SYNC, FRAME_SIZE, IDCODE, SOC, FRACSEC, CHK)

\* udp_payloads.common_frame_build: exit(-1) on a field out of range, else
\* the packed datagram.  The upper limit of SOC, 2^32 - 1, lies above every
\* SOC of the model, so only its lower limit can fail here.
common_frame_build(SYNC, FRAME_SIZE, IDCODE, SOC, FRACSEC, CHK) ==
    IF ~(43520 <= SYNC /\ SYNC <= 43631) THEN [kind |-> "exit", code |-> -1]
    ELSE IF ~(0 <= FRAME_SIZE /\ FRAME_SIZE <= 65535) THEN [kind |-> "exit", code |-> -1]
    ELSE IF ~(0 <= SOC) THEN [kind |-> "exit", code |-> -1]
    ELSE IF ~(0 <= FRACSEC /\ FRACSEC <= 16777215) THEN [kind |-> "exit", code |-> -1]
    ELSE Ok(Datagram(16, SYNC, FRAME_SIZE, IDCODE, SOC, FRACSEC, CHK))

\* MODE_ID_LOOKUP
MODE_ID_LOOKUP == [raw |-> 1, ewma |-> 2, kalman |-> 3, pid |-> 4]

\* A schedule whose bands start one correction late
damping_factor_late(sync_count_) ==
    IF sync_count_ <= 5 THEN 5 ELSE IF sync_count_ <= 10 THEN 3 ELSE 1

\* The damping factor of apply_time_correction, in tenths (lines 87-92)
damping_factor(sync_count_) ==
    IF sync_count_ < 5 THEN 5 ELSE IF sync_count_ < 10 THEN 3 ELSE 1

\* compensated_correction, in half microseconds (lines 79-82)
compensated_correction(correction_microseconds, round_trip_us) ==
    (2 * correction_microseconds) + round_trip_us

\* The client's three globals
ClientState(offset, count, total) ==
    [local_time_offset |-> offset, sync_count |-> count, total_corrections |-> total]

\* apply_time_correction(correction_microseconds, round_trip_time_ms) on the
\* globals K: the globals it leaves and the tuple it returns
apply_time_correction(K, correction_microseconds, round_trip_us) ==
    [globals |->
         ClientState(K.local_time_offset
                       + (compensated_correction(correction_microseconds, round_trip_us)
                            * damping_factor(K.sync_count)),
                     K.sync_count + 1,
                     K.total_corrections
                       + Abs(compensated_correction(correction_microseconds,
                                                    round_trip_us))),
     correction_to_apply |->
         compensated_correction(correction_microseconds, round_trip_us)
           * damping_factor(K.sync_count),
     compensated_correction |->
         compensated_correction(correction_microseconds, round_trip_us),
     network_delay_compensation |-> round_trip_us]

\* A reset test that fires one correction early
needs_reset_early(sync_count_, compensated) ==
    sync_count_ >= ResetAfter /\ Abs(compensated) > 2 * ResetThresholdUs

\* "if sync_count > 15 and abs(compensated_correction) > 500000" (line 168)
needs_reset(sync_count_, compensated) ==
    sync_count_ > ResetAfter /\ Abs(compensated) > 2 * ResetThresholdUs

\* The globals after the SYNC RESET test (lines 167-172)
auto_reset(K, compensated) ==
    IF needs_reset(K.sync_count, compensated) THEN ClientState(0, 0, 0) ELSE K

\* "if max_packets and sync_count >= max_packets: break" (lines 196-198)
leaves_loop(max_packets_, sync_count_) ==
    max_packets_ # 0 /\ sync_count_ >= max_packets_

\* What recvfrom hands the client: a JSON object with correction_us, one
\* without it, or bytes that are not JSON
Correction(c) == [kind |-> "object", correction_us |-> PyInt(c)]
NoCorrection == [kind |-> "object", correction_us |-> PyNone]
NotJson == [kind |-> "text", correction_us |-> PyNone]

NoApplied ==
    [kind |-> "none", k |-> 0, correction_us |-> 0, round_trip_us |-> 0,
     before |-> ClientState(0, 0, 0), correction_to_apply |-> 0,
     compensated_correction |-> 0, after_apply |-> ClientState(0, 0, 0)]

\* The client after the reset test, the sleep and the --count test
\* (lines 167-198), with what the pass did
Slept(K, G, max_packets_, correction_microseconds, round_trip_us, R) ==
    [globals |-> G,
     kpc |-> IF leaves_loop(max_packets_, G.sync_count) THEN "exited" ELSE "send",
     applied |-> [kind |-> "applied", k |-> K.sync_count + 1,
                  correction_us |-> correction_microseconds,
                  round_trip_us |-> round_trip_us, before |-> K,
                  correction_to_apply |-> R.correction_to_apply,
                  compensated_correction |-> R.compensated_correction,
                  after_apply |-> R.globals]]

\* The pass once apply_time_correction has returned R (lines 142-172)
Applied(K, max_packets_, correction_microseconds, round_trip_us, R) ==
    Slept(K, auto_reset(R.globals, R.compensated_correction), max_packets_,
          correction_microseconds, round_trip_us, R)

\* One pass of the main loop from recvfrom to the end of the body
\* (lines 126-198) on message msg that took round_trip_us to come
reply_handling(K, max_packets_, msg, round_trip_us) ==
    IF msg.kind = "text"
    THEN [globals |-> K,
          kpc |-> IF leaves_loop(max_packets_, K.sync_count) THEN "exited" ELSE "send",
          applied |-> [NoApplied EXCEPT !.kind = "text", !.before = K,
                                        !.after_apply = K]]
    ELSE IF msg.correction_us.t = "None"
    THEN [globals |-> K, kpc |-> "send",
          applied |-> [NoApplied EXCEPT !.kind = "skipped", !.before = K,
                                        !.after_apply = K]]
    ELSE Applied(K, max_packets_, msg.correction_us.v, round_trip_us,
                 apply_time_correction(K, msg.correction_us.v, round_trip_us))

\* Bounds of the client runs
MaxClientPackets == 21

\* The readings of the corrected clock a datagram is stamped with
ClientClocks == { [soc |-> 100, frac |-> 484375] }

\* Messages and the time they took: a 20 ms correction at once, a correction
\* beyond 500 ms after a delay, and the two other kinds
ReplyInputs ==
    { <<Correction(20000), 0>>, <<Correction(-600000), 3000>>,
      <<NoCorrection, 0>>, <<NotJson, 0>> }

\* A count of datagrams that stops at the bound of the run
Counted_to_bound(n) == IF n < MaxClientPackets THEN n + 1 ELSE n

\* A client that sends without waiting for the reply to its last datagram
ClientSend_pipelined ==
    /\ kpc \in {"send", "wait"}
    /\ max_packets > 0 \/ sent < MaxClientPackets
    /\ \E clock \in ClientClocks :
          payload' = Common_frame_build(43521, 65535, MODE_ID, clock.soc,
                                        clock.frac, 57005)
    /\ sent' = Counted_to_bound(sent)
    /\ kpc' = "wait"
    /\ UNCHANGED <<max_packets, MODE_ID, local_time_offset, sync_count,
                   total_corrections, applied, answers, fvars, cvars, svars>>

\* udp_simple_client: craft the datagram and send it (lines 108-123).  An
\* unlimited run (--count 0) is followed for MaxClientPackets datagrams; a run
\* with --count N is followed to its end, however many datagrams that takes
ClientSend ==
    /\ kpc = "send"
    /\ max_packets > 0 \/ sent < MaxClientPackets
    /\ \E clock \in ClientClocks :
          payload' = Common_frame_build(43521, 65535, MODE_ID, clock.soc,
                                        clock.frac, 57005)
    /\ sent' = Counted_to_bound(sent)
    /\ kpc' = "wait"
    /\ UNCHANGED <<max_packets, MODE_ID, local_time_offset, sync_count,
                   total_corrections, applied, answers, fvars, cvars, svars>>

\* The client's globals as one record, and back
Client == ClientState(local_time_offset, sync_count, total_corrections)

ClientBecomes(T) ==
    /\ local_time_offset' = T.globals.local_time_offset
    /\ sync_count' = T.globals.sync_count
    /\ total_corrections' = T.globals.total_corrections
    /\ kpc' = T.kpc
    /\ applied' = T.applied

\* udp_simple_client: recvfrom returns and the body runs to its end
ClientReceive ==
    /\ kpc = "wait"
    /\ \E r \in ReplyInputs :
          ClientBecomes(reply_handling(Client, max_packets, r[1], r[2]))
    /\ answers' = Counted_to_bound(answers)
    /\ UNCHANGED <<max_packets, MODE_ID, payload, sent, fvars, cvars, svars>>

\* udp_simple_client_fast: stamp, build and send (lines 61-70)
FastSent(built) ==
    /\ payload' = IF IsOk(built) THEN built.val ELSE payload
    /\ sent' = IF IsOk(built) THEN sent + 1 ELSE sent
    /\ kpc' = IF IsOk(built) THEN "fast_wait" ELSE "exited"

FastSend ==
    /\ kpc = "fast_send"
    /\ sent < MaxClientPackets
    /\ \E clock \in ClientClocks :
          FastSent(common_frame_build(43521, 65535, 57005, clock.soc,
                                      payloads_set_frasec(clock.frac, "+", FALSE,
                                                          FALSE, 0),
                                      57005))
    /\ UNCHANGED <<max_packets, MODE_ID, local_time_offset, sync_count,
                   total_corrections, applied, answers, fvars, cvars, svars>>

\* set_frasec with any arguments, then common_frame_build on the word the way
\* udp_simple_client_fast calls it (lines 65-67)
FrameFromFrasec ==
    /\ kpc = "frame"
    /\ fpayload = Blank
    /\ fpayload' = payloads_pack_unpack(fin)
    /\ FastSent(common_frame_build(43521, 65535, 57005, 100,
                                   payloads_set_frasec(fin.fr_seconds, fin.leap_dir,
                                                       fin.leap_occ, fin.leap_pen,
                                                       fin.time_quality),
                                   57005))
    /\ UNCHANGED <<fin, fcommon, max_packets, MODE_ID, local_time_offset, sync_count,
                   total_corrections, applied, answers, cvars, svars>>

\* udp_simple_client_fast: recvfrom returns (lines 72-75)
FastReceive ==
    /\ kpc = "fast_wait"
    /\ answers' = answers + 1
    /\ kpc' = "fast_send"
    /\ UNCHANGED <<max_packets, MODE_ID, local_time_offset, sync_count,
                   total_corrections, payload, applied, sent, fvars, cvars, svars>>

\* Ctrl-C at the client
ClientInterrupt ==
    /\ kpc \in {"send", "wait", "fast_send", "fast_wait"}
    /\ kpc' = "stopped"
    /\ UNCHANGED <<max_packets, MODE_ID, local_time_offset, sync_count,
                   total_corrections, payload, applied, sent, answers, fvars,
                   cvars, svars>>

-----------------------------------------------------------------------------
(* Specifications                                                          *)

FrasecIdle == fin = Blank /\ fcommon = Blank /\ fpayload = Blank

CodecStart(pc) ==
    /\ cpc = pc
    /\ cfg = PyNone
    /\ now = [soc |-> 1700000000, frac |-> 250000]
    /\ frame = Blank /\ enc = Blank /\ wire = <<>> /\ dcfg = PyNone
    /\ dec = Blank /\ peek = Blank /\ measured = Blank /\ stat_codec = Blank /\ given = Blank
    /\ rewire = Blank

ServerStart(pc, tr, second) ==
    /\ spc = pc
    /\ global_analyzer = ServerInit.global_analyzer
    /\ client_analyzers = ServerInit.client_analyzers
    /\ client_packet_count = ServerInit.client_packet_count
    /\ client_bias_us = ServerInit.client_bias_us
    /\ proc = Running
    /\ sqn_num = ServerInit.sqn_num
    /\ sender_addr = ServerInit.sender_addr
    /\ reply = ServerInit.reply
    /\ received = ServerInit.received
    /\ last = ServerInit.last
    /\ seen = NoSeen
    /\ traffic = tr
    /\ run2 = second

ClientStart(pc, count, mode) ==
    /\ kpc = pc
    /\ max_packets = count
    /\ MODE_ID = mode
    /\ local_time_offset = 0
    /\ sync_count = 0
    /\ total_corrections = 0
    /\ payload = Blank
    /\ applied = NoApplied
    /\ sent = 0
    /\ answers = 0

ClientIdle == ClientStart("idle", 0, 0)

\* The receive loop under mixed traffic from two endpoints
Init ==
    /\ ClientIdle
    /\ FrasecIdle
    /\ CodecStart("idle")
    /\ ServerStart("loop",
                   Traffic(Endpoints,
                           Requests({1, 2, 3, 4, 9}, {<<100, 500000>>, <<100, 484375>>})
                               \cup {Runt, Signed(Request(2, 100, 484375))},
                           MaxPackets),
                   Blank)
Next == Receive \/ Interrupt
Spec == Init /\ [][Next]_vars

\* The FRASEC packers on every argument tuple
InitFrasec ==
    /\ ClientIdle
    /\ fin \in [fr_seconds : Fractions, leap_dir : LeapDirs, leap_occ : BOOLEAN,
                leap_pen : BOOLEAN, time_quality : 0..MaxTimeQuality]
    /\ fcommon = Blank /\ fpayload = Blank
    /\ CodecStart("idle")
    /\ ServerStart("idle", NoTraffic, Blank)
NextFrasec == PackCommon \/ PackPayloads
SpecFrasec == InitFrasec /\ [][NextFrasec]_vars

\* A datagram built from the word of set_frasec, on every argument tuple
InitFrame ==
    /\ ClientStart("frame", 0, 0)
    /\ fin \in [fr_seconds : Fractions, leap_dir : LeapDirs, leap_occ : BOOLEAN,
                leap_pen : BOOLEAN, time_quality : 0..MaxTimeQuality]
    /\ fcommon = Blank /\ fpayload = Blank
    /\ CodecStart("idle")
    /\ ServerStart("idle", NoTraffic, Blank)
NextFrame == FrameFromFrasec
SpecFrame == InitFrame /\ [][NextFrame]_vars

\* The codec: build, encode, deliver, peek, decode, encode again
InitCodec ==
    /\ ClientIdle
    /\ FrasecIdle
    /\ CodecStart("start")
    /\ ServerStart("idle", NoTraffic, Blank)
NextCodec ==
    \/ BuildData \/ BuildOther \/ Encode \/ Tick
    \/ DeliverIntact \/ DeliverCorrupt \/ DeliverForged \/ DeliverCut
    \/ Peek \/ Decode \/ Reencode
SpecCodec == InitCodec /\ [][NextCodec]_vars

\* Data frames of every format: build, encode, read the measurements
InitFormats ==
    /\ ClientIdle
    /\ FrasecIdle
    /\ CodecStart("formats")
    /\ ServerStart("idle", NoTraffic, Blank)
NextFormats == BuildFormats \/ Encode \/ GetMeasurements
SpecFormats == InitFormats /\ [][NextFormats]_vars

\* Frames with a time of the caller's: build, let the clock move, encode
InitTimed ==
    /\ ClientIdle
    /\ FrasecIdle
    /\ CodecStart("timed")
    /\ ServerStart("idle", NoTraffic, Blank)
NextTimed == BuildTimed \/ Tick \/ Encode
SpecTimed == InitTimed /\ [][NextTimed]_vars

\* Data frames of values at the edges of the fields: build, encode
InitEdge ==
    /\ ClientIdle
    /\ FrasecIdle
    /\ CodecStart("edge")
    /\ ServerStart("idle", NoTraffic, Blank)
NextEdge == BuildEdge \/ Encode
SpecEdge == InitEdge /\ [][NextEdge]_vars

\* The STAT word: pack a tuple, read the word back
InitStat ==
    /\ ClientIdle
    /\ FrasecIdle
    /\ CodecStart("stat")
    /\ ServerStart("idle", NoTraffic, Blank)
NextStat == Stat2Int \/ Int2Stat
SpecStat == InitStat /\ [][NextStat]_vars

\* Either server from the start of its process
InitBoot ==
    /\ ClientIdle
    /\ FrasecIdle
    /\ CodecStart("idle")
    /\ spc = "boot"
    /\ \E program \in {"main", "simple"} :
          proc = [Running EXCEPT !.program = program, !.bound = "unbound"]
    /\ global_analyzer = ServerInit.global_analyzer
    /\ client_analyzers = ServerInit.client_analyzers
    /\ client_packet_count = ServerInit.client_packet_count
    /\ client_bias_us = ServerInit.client_bias_us
    /\ sqn_num = ServerInit.sqn_num
    /\ sender_addr = ServerInit.sender_addr
    /\ reply = ServerInit.reply
    /\ received = ServerInit.received
    /\ last = ServerInit.last
    /\ seen = NoSeen
    /\ traffic = Traffic(Endpoints,
                         {Runt, Request(1, 100, 500000), Request(3, 100, 484375)},
                         MaxBootPackets)
    /\ run2 = Blank
NextBoot ==
    \/ BindMain \/ Prompt \/ Receive \/ Interrupt
    \/ BindSimple \/ SimpleReceive \/ SimpleReceiveUnbound
SpecBoot == InitBoot /\ [][NextBoot]_vars

\* Two runs of the server side by side
InitPair ==
    /\ ClientIdle
    /\ FrasecIdle
    /\ CodecStart("idle")
    /\ ServerStart("loop",
                   Traffic(Endpoints,
                           Requests({1, 2, 3, 4}, {<<100, 500000>>, <<100, 484375>>}),
                           MaxPairPackets),
                   ServerInit)
NextPair == ReceiveBoth \/ ReceiveOther1 \/ ReceiveOther2
SpecPair == InitPair /\ [][NextPair]_vars

\* A long run: one endpoint, one scheme, one offset, chosen at the start
InitSteady ==
    /\ ClientIdle
    /\ FrasecIdle
    /\ CodecStart("idle")
    /\ \E d \in Requests({1, 2, 3, 4}, {<<100, 484375>>, <<99, 2500000>>}) :
          ServerStart("loop", Traffic({"A"}, {d}, MaxSteadyPackets), Blank)
NextSteady == Receive \/ Interrupt
SpecSteady == InitSteady /\ [][NextSteady]_vars


\* The receive loop behind a socket that queues what arrives; the loop keeps
\* running ("while True"), so an iteration that can be taken is taken
InitLive ==
    /\ ClientIdle
    /\ FrasecIdle
    /\ CodecStart("idle")
    /\ ServerStart("loop",
                   LiveTraffic(Endpoints,
                               {Runt, Request(1, 100, 500000), Request(2, 100, 484375)},
                               MaxLivePackets),
                   Blank)
NextLive == Arrive \/ Serve \/ Interrupt
SpecLive == InitLive /\ [][NextLive]_vars /\ WF_received(ServeStep)

\* One analyzer of a small buffer fed sample after sample
InitRing ==
    /\ ClientIdle
    /\ FrasecIdle
    /\ CodecStart("idle")
    /\ spc = "ring"
    /\ global_analyzer = TimeSeriesAnalyzer(RingSize)
    /\ client_analyzers = ServerInit.client_analyzers
    /\ client_packet_count = ServerInit.client_packet_count
    /\ client_bias_us = ServerInit.client_bias_us
    /\ proc = Running
    /\ sqn_num = ServerInit.sqn_num
    /\ sender_addr = ServerInit.sender_addr
    /\ reply = ServerInit.reply
    /\ received = ServerInit.received
    /\ last = ServerInit.last
    /\ seen = <<>>
    /\ traffic = NoTraffic
    /\ run2 = Blank
NextRing == Measure
SpecRing == InitRing /\ [][NextRing]_vars

\* The server stamping datagrams that differ in the flag bits of FRACSEC
InitStamp ==
    /\ ClientIdle
    /\ FrasecIdle
    /\ CodecStart("idle")
    /\ spc = "stamp"
    /\ global_analyzer = ServerInit.global_analyzer
    /\ client_analyzers = ServerInit.client_analyzers
    /\ client_packet_count = ServerInit.client_packet_count
    /\ client_bias_us = ServerInit.client_bias_us
    /\ proc = Running
    /\ sqn_num = ServerInit.sqn_num
    /\ sender_addr = ServerInit.sender_addr
    /\ reply = ServerInit.reply
    /\ received = ServerInit.received
    /\ last = ServerInit.last
    /\ seen = <<>>
    /\ traffic = NoTraffic
    /\ run2 = Blank
NextStamp == Stamp
SpecStamp == InitStamp /\ [][NextStamp]_vars

\* One analyzer fed the same sample again and again
InitConst ==
    /\ ClientIdle
    /\ FrasecIdle
    /\ CodecStart("idle")
    /\ spc = "const"
    /\ global_analyzer = TimeSeriesAnalyzer(GlobalBufferSize)
    /\ client_analyzers = ServerInit.client_analyzers
    /\ client_packet_count = ServerInit.client_packet_count
    /\ client_bias_us = ServerInit.client_bias_us
    /\ proc = Running
    /\ sqn_num = ServerInit.sqn_num
    /\ sender_addr = ServerInit.sender_addr
    /\ reply = ServerInit.reply
    /\ received = ServerInit.received
    /\ last = ServerInit.last
    /\ seen = <<>>
    /\ traffic = NoTraffic
    /\ run2 = Blank
NextConst == Feed
SpecConst == InitConst /\ [][NextConst]_vars

\* Everything that emits a FRASEC word: the two packers on every argument
\* tuple, or the two clients stamping datagrams
InitEmit ==
    /\ CodecStart("idle")
    /\ ServerStart("idle", NoTraffic, Blank)
    /\ fcommon = Blank /\ fpayload = Blank
    /\ \/ /\ ClientIdle
          /\ fin \in [fr_seconds : Fractions, leap_dir : LeapDirs, leap_occ : BOOLEAN,
                      leap_pen : BOOLEAN, time_quality : 0..MaxTimeQuality]
       \/ /\ \E pc \in {"send", "fast_send"} : ClientStart(pc, 1, MODE_ID_LOOKUP.raw)
          /\ fin = [fr_seconds |-> 0, leap_dir |-> "+", leap_occ |-> FALSE,
                    leap_pen |-> FALSE, time_quality |-> 0]
NextEmit ==
    PackCommon \/ PackPayloads \/ ClientSend \/ ClientReceive \/ FastSend \/ FastReceive
SpecEmit == InitEmit /\ [][NextEmit]_vars

\* The two clients against any stream of replies
InitClient ==
    /\ FrasecIdle
    /\ CodecStart("idle")
    /\ ServerStart("idle", NoTraffic, Blank)
    /\ \E pc \in {"send", "fast_send"}, count \in {0, 2},
          mode \in {MODE_ID_LOOKUP[m] : m \in DOMAIN MODE_ID_LOOKUP} :
          ClientStart(pc, count, mode)
NextClient ==
    ClientSend \/ ClientReceive \/ FastSend \/ FastReceive \/ ClientInterrupt
SpecClient == InitClient /\ [][NextClient]_vars

\* udp_simple_client started with --count N, N > 0, against a server that
\* answers every datagram: the loop has no other exit than the --count test,
\* a datagram that can be sent is sent (sendto does not block) and a reply
\* that is on its way arrives
CountLimits == {1, 2}
InitCount ==
    /\ FrasecIdle
    /\ CodecStart("idle")
    /\ ServerStart("idle", NoTraffic, Blank)
    /\ \E count \in CountLimits, mode \in {MODE_ID_LOOKUP.raw, MODE_ID_LOOKUP.pid} :
          ClientStart("send", count, mode)
NextCount == ClientSend \/ ClientReceive
SpecCount == InitCount /\ [][NextCount]_vars /\ WF_vars(ClientSend) /\ WF_vars(ClientReceive)

-----------------------------------------------------------------------------
(* Properties                                                              *)

\* C1: a data frame built against a configuration with integer formats,
\* encoded, and decoded against the same configuration comes back with the
\* same STAT words, phasors, FREQ, DFREQ, analogs, digitals, IDCODE, SOC and
\* FRASEC, and encoding the decoded frame gives the same bytes.
C1_DataFrameRoundTrip ==
    (/\ cpc \in {"decoded", "done"} /\ frame.val.frame_type = 0
     /\ wire = enc.val /\ dcfg = cfg)
    => /\ IsOk(dec)
       /\ dec.val.stat = frame.val.stat
       /\ dec.val.phasors = frame.val.phasors
       /\ dec.val.freq = frame.val.freq
       /\ dec.val.dfreq = frame.val.dfreq
       /\ dec.val.analog = frame.val.analog
       /\ dec.val.digital = frame.val.digital
       /\ dec.val.pmu_id_code = frame.val.pmu_id_code
       /\ dec.val.soc = EncodeTime(frame.val, now).val.soc
       /\ dec.val.frasec = EncodeTime(frame.val, now).val.frasec
       /\ (cpc = "done" => rewire = enc)

\* The arguments in the ranges of the FRASEC law
FrasecInRange ==
    /\ 0 <= fin.fr_seconds /\ fin.fr_seconds <= 16777215
    /\ fin.leap_dir \in {"+", "-"}
    /\ fin.time_quality \in (0..11) \cup {15}

\* C2: for every fraction in 0..2^24-1, leap direction + or -, booleans and
\* time quality in {0..11, 15}, unpacking the packed word returns the tuple
\* that was packed, in CommonFrame and in udp_payloads.
C2_FrasecRoundTrip ==
    FrasecInRange
    => /\ fcommon # Blank => (IsOk(fcommon) /\ fcommon.val = fin)
       /\ fpayload # Blank => fpayload.val = fin

\* C3: every byte sequence convert2bytes returns, for any frame type, header
\* fields and payload, passes _check_crc: its last two bytes are the
\* big-endian CRC16 (init 0xFFFF) of the bytes before them.  The bytes are
\* looked at in the state each call returns to (enc at "encoded", rewire at
\* "done"); no later step changes them.
C3_CrcLaw ==
    /\ (cpc = "encoded" /\ IsOk(enc))
       => /\ check_crc(enc.val)
          /\ Last2(enc.val) = ToBytes(crc16xmodem(AllButLast2(enc.val), 65535), 2)
    /\ (cpc = "done" /\ IsOk(rewire))
       => /\ check_crc(rewire.val)
          /\ Last2(rewire.val) = ToBytes(crc16xmodem(AllButLast2(rewire.val), 65535), 2)

\* A data frame with its measurements has been encoded
C3_Witness == cpc = "encoded" /\ IsOk(enc) /\ frame.val.frame_type = 0 /\ Len(enc.val) > 16

\* C4: extract_frame_type and CommonFrame.convert2frame return a type or a
\* frame only for bytes that pass the CRC check, and fail with the CRC frame
\* error on every byte sequence that does not pass it.  Each result is looked
\* at in the state its call returns to; no later step changes it.
C4_CrcFirst ==
    /\ cpc = "peeked"
       => /\ IsOk(peek) => check_crc(wire)
          /\ ~check_crc(wire) => peek = FrameError("CRC failed")
    /\ cpc = "decoded"
       => /\ IsOk(dec) => check_crc(wire)
          /\ ~check_crc(wire) => dec = FrameError("CRC failed")

\* A frame other than a data frame arrived with a bit flipped and both
\* functions refused it
C4_Witness ==
    /\ cpc = "decoded" /\ IsOk(enc) /\ wire # enc.val /\ Len(wire) = Len(enc.val)
    /\ frame.val.frame_type # 0
    /\ ~check_crc(wire)
    /\ peek = FrameError("CRC failed") /\ dec = FrameError("CRC failed")

\* The type nibble of the delivered bytes
WireType == Shr(wire[2], 4)

\* C5: decoding a CRC-valid frame of type data without a configuration ends in
\* an error and never returns a frame; for the other types the result is the
\* same whatever configuration is passed.
C5_DataNeedsCfg ==
    (cpc = "decoded" /\ check_crc(wire) /\ Len(wire) >= 2)
    => /\ (WireType = 0 /\ dcfg = PyNone) => ~IsOk(dec)
       /\ WireType # 0 => dec = CommonFrame_convert2frame(wire, PyNone, now)

\* A data frame arrived intact and was refused for want of a configuration
C5_Witness ==
    /\ cpc = "decoded" /\ IsOk(enc) /\ wire = enc.val /\ frame.val.frame_type = 0
    /\ dcfg = PyNone
    /\ dec = FrameError("Error while creating Data frame")

\* The size of the blocks configuration c implies
ImpliedSize(c) == StreamLayout(c, c.num_pmu, StreamStart(c, c.num_pmu)).end - 14

\* C6: DataFrame.convert2frame fails whenever the size of the blocks implied
\* by the configuration differs from the payload length len(bytes) - 16.
C6_LengthMismatchIsError ==
    (/\ cpc \in {"decoded", "done"} /\ check_crc(wire) /\ Len(wire) >= 16
     /\ WireType = 0 /\ dcfg # PyNone
     /\ ImpliedSize(dcfg) # Len(wire) - 16)
    => ~IsOk(dec)

\* C7: on a CRC-valid byte sequence whose type nibble is not in 0..5 both
\* extract_frame_type and the dispatcher fail with a FrameError.
C7_UnknownTypeIsFrameError ==
    (check_crc(wire) /\ Len(wire) >= 2 /\ WireType \notin 0..5)
    => /\ cpc \in {"peeked", "decoded", "done"}
          => (~IsOk(peek) /\ peek.err = "FrameError")
       /\ cpc \in {"decoded", "done"}
          => (~IsOk(dec) /\ dec.err = "FrameError")

\* C8: in two runs in which endpoint A sends the same datagrams at the same
\* server times and the other endpoints send differently, every reply to A
\* under ewma, kalman or pid carries the same correction_us.
C8_PerClientEstimators ==
    (/\ reply.kind = "reply" /\ run2.reply.kind = "reply"
     /\ reply.to = "A" /\ run2.reply.to = "A"
     /\ reply.scheme \in {"ewma", "kalman", "pid"})
    => reply.correction_us = run2.reply.correction_us

\* C9: after n accepted datagrams from e, client_analyzers[e].packet_count =
\* client_packet_count[e] = n, the ring buffer holds min(n, 500) samples and
\* the PID integral is the sum of the n samples.
C9_OneUpdatePerPacket ==
    \A e \in DOMAIN client_analyzers :
        /\ client_packet_count[e] = seen[e].n
        /\ client_analyzers[e].packet_count = seen[e].n
        /\ Len(client_analyzers[e].timing_data) =
               (IF seen[e].n < ClientBufferSize THEN seen[e].n ELSE ClientBufferSize)
        /\ client_analyzers[e].pid_integral = seen[e].sum

\* C10: the raw sample of a client's packet 30 is recorded as its bias; every
\* later reply under ewma, kalman or pid carries the estimator output minus
\* that bias, and replies under raw carry the raw sample.
C10_BiasAtPacket30 ==
    \A e \in DOMAIN client_bias_us :
        /\ seen[e].n >= BiasPacket => client_bias_us[e] = seen[e].at30
        /\ (last.kind = "replied" /\ last.from = e /\ last.packet > BiasPacket
            /\ last.scheme \in {"ewma", "kalman", "pid"})
           => reply.correction_us =
                SchemeValue(last.scheme, last.raw_us, last.ewma_us, last.kalm_us,
                            last.pid_us) - seen[e].at30.v
        /\ (last.kind = "replied" /\ last.from = e /\ last.scheme = "raw")
           => reply.correction_us = last.raw_us

\* The scheme an IDCODE asks for, as the protocol states it
SchemeAsked(idcode) ==
    IF idcode = 1 THEN "raw"
    ELSE IF idcode = 2 THEN "ewma"
    ELSE IF idcode = 3 THEN "kalman"
    ELSE IF idcode = 4 THEN "pid"
    ELSE "raw"

\* C11: the IDCODE of the request selects the scheme of the reply (1 raw,
\* 2 ewma, 3 kalman, 4 pid, anything else raw), and the reply's correction_us
\* is that scheme's value: the raw sample of this datagram, or the output of
\* the EWMA, Kalman or PID estimator the loop reads.
C11_SchemeByIdcode ==
    last.kind = "replied" =>
        /\ reply.scheme = SchemeAsked(last.dgram.IDCODE)
        /\ reply.correction_us =
              (CASE reply.scheme = "raw" -> Sample(last.dgram, ServerClock)
                 [] reply.scheme = "ewma" -> predicted_offset_us(global_analyzer)
                 [] reply.scheme = "kalman" -> kalman_offset_us(global_analyzer)
                 [] reply.scheme = "pid" -> pid_offset_us(global_analyzer))

\* A reply to IDCODE 3 that carries the Kalman estimate, which is not the raw
\* sample of the datagram
C11_Witness ==
    /\ last.kind = "replied"
    /\ last.dgram.IDCODE = 3
    /\ reply.scheme = "kalman"
    /\ reply.correction_us = kalman_offset_us(global_analyzer)
    /\ reply.correction_us # Sample(last.dgram, ServerClock)

\* C12: the first reply carries ack_num 0; every reply carries the number of
\* replies sent before it, and a datagram that is dropped leaves the counter
\* where it was.
C12_AckNumbering ==
    /\ [](received = 0 => sqn_num = 0)
    /\ [][received' = received + 1 =>
             IF reply'.kind = "reply"
             THEN reply'.ack_num = sqn_num /\ sqn_num' = sqn_num + 1
             ELSE sqn_num' = sqn_num]_vars

\* The second reply, sent after a datagram was dropped in between
C12_Witness ==
    /\ received = 3
    /\ last.kind = "replied"
    /\ reply.ack_num = 1
    /\ sqn_num = 2

\* The loop has just answered the i-th datagram that reached the socket
Answered(i) ==
    /\ received = i
    /\ i <= Len(traffic.log)
    /\ reply.kind = "reply"
    /\ reply.to = traffic.log[i].from
    /\ last.dgram = traffic.log[i].d

\* Datagrams have reached the socket that the running loop has not taken
Backlog == spc = "loop" /\ received < Len(traffic.log)

C14_BadCrcDropped ==
    last.kind = "replied" => last.dgram.CHK = Checksum(last.dgram)

\* C15: every datagram a client sends has CHK equal to the CRC-16 (initial
\* value 0xFFFF) of its 14 preceding bytes.
C15_ClientFramesCarryCrc ==
    sent > 0 => payload.CHK = Checksum(payload)

\* The size the registry is asked to stay within: one endpoint fewer than
\* the endpoints that send
RegistryCap == Cardinality(Endpoints) - 1

\* C16: the registry of client endpoints never holds more than its cap; the
\* least-recently-seen endpoint is evicted to make room.
C16_RegistryBounded ==
    /\ Cardinality(DOMAIN client_analyzers) <= RegistryCap
    /\ Cardinality(DOMAIN client_packet_count) <= RegistryCap

\* C17: after k calls of add_measurement on an analyzer of buffer size N the
\* buffer holds the min(k, N) most recent samples in call order, and
\* packet_count is k.
C17_RingBuffer ==
    spc = "ring" =>
        LET k == Len(seen)
            n == IF k < RingSize THEN k ELSE RingSize
        IN /\ global_analyzer.packet_count = k
           /\ Len(global_analyzer.timing_data) = n
           /\ \A j \in 1..n :
                 /\ global_analyzer.timing_data[j].total_microsec_diff = seen[k - n + j]
                 /\ global_analyzer.timing_data[j].packet_num = k - n + j - 1

\* More calls than the buffer holds: the oldest sample has gone
C17_Witness ==
    /\ spc = "ring"
    /\ Len(seen) > RingSize
    /\ Len(global_analyzer.timing_data) = RingSize
    /\ global_analyzer.timing_data[1].total_microsec_diff # seen[1]
    /\ global_analyzer.timing_data[RingSize].total_microsec_diff = seen[Len(seen)]

\* The change of local_time_offset made by the correction just applied, in
\* twentieths of a microsecond
OffsetChange == applied.after_apply.local_time_offset - applied.before.local_time_offset

\* C18: the k-th correction since start or reset moves local_time_offset by
\* 0.5 of the compensated correction for k <= 5, 0.3 for 6 <= k <= 10 and 0.1
\* for k > 10; a 20 ms correction with zero round trip moves it 10 ms as the
\* first correction and 2 ms as the twentieth.
C18_DampingSchedule ==
    applied.kind = "applied" =>
        /\ OffsetChange =
              (IF applied.k <= 5 THEN 5 ELSE IF applied.k <= 10 THEN 3 ELSE 1)
                * applied.compensated_correction
        /\ (applied.correction_us = 20000 /\ applied.round_trip_us = 0 /\ applied.k = 1)
              => OffsetChange = 20 * 10000
        /\ (applied.correction_us = 20000 /\ applied.round_trip_us = 0 /\ applied.k = 20)
              => OffsetChange = 20 * 2000

\* The twentieth correction of 20 ms, applied with factor 0.1
C18_Witness ==
    /\ applied.kind = "applied"
    /\ applied.k = 20
    /\ applied.correction_us = 20000
    /\ applied.round_trip_us = 0
    /\ OffsetChange = 20 * 2000

\* C19: the compensated correction is the server's correction minus half the
\* measured round trip (here in half-microseconds).
C19_RoundTripSubtracted ==
    applied.kind = "applied" =>
        applied.compensated_correction =
            (2 * applied.correction_us) - applied.round_trip_us

\* The reset condition as the protocol states it: 15 corrections applied
\* before this one, and a compensated correction beyond 500 ms
ResetDue ==
    /\ applied.before.sync_count >= 15
    /\ Abs(applied.compensated_correction) > 2 * 500000

\* C20: a correction processed after 15 corrections were applied, whose
\* compensated value exceeds 500 ms in magnitude, leaves the offset, the
\* correction counter and the running total at zero; any other reply leaves
\* them as the correction (or its absence) left them.
C20_AutoReset ==
    /\ applied.kind = "applied" =>
          IF ResetDue THEN Client = ClientState(0, 0, 0)
          ELSE Client = applied.after_apply
    /\ applied.kind \in {"text", "skipped"} => Client = applied.before

\* A reset that cleared a non-zero offset
C20_Witness ==
    /\ applied.kind = "applied"
    /\ ResetDue
    /\ applied.after_apply.local_time_offset # 0
    /\ applied.after_apply.sync_count > 15
    /\ Client = ClientState(0, 0, 0)

\* The datagrams sent so far are those of udp_simple_client (the other client
\* stamps every datagram with IDCODE 0xDEAD and has no --count)
SimpleClientSent == sent > 0 /\ payload.IDCODE = MODE_ID

\* C21: started with --count N, N > 0, udp_simple_client sends at most N
\* datagrams, whatever the replies are.
C21_CountBoundsSent ==
    (SimpleClientSent /\ max_packets > 0) => sent <= max_packets

\* C22: started with --count N, N > 0, against a server that answers every
\* datagram, udp_simple_client eventually leaves its send loop.
C22_CountTerminates == <>(kpc = "exited")

\* Two datagrams are equal except for bits 31..24 of FRACSEC
SameButFlags(d1, d2) ==
    [d1 EXCEPT !.FRACSEC = @ % Pow2(24)] = [d2 EXCEPT !.FRACSEC = @ % Pow2(24)]

\* C23: two datagrams that are equal except for bits 31..24 of FRACSEC,
\* received at the same server clock value, give the same (delta-SOC,
\* delta-FRAC) from time_diff_calc.
C23_FractionOnly ==
    spc = "stamp" =>
        \A i, j \in 1..Len(seen) :
            SameButFlags(seen[i].d, seen[j].d) => seen[i].td = seen[j].td

\* x is within 5% of s
Within5(x, s) == 20 * Abs(x - s) <= Abs(s)

\* C24: on a constant stream of a non-zero sample s the EWMA prediction (the
\* value kept and the integer reported) is within 5% of s from step 15 on
\* and the Kalman estimate is within 5% of s from step 10 on.
C24_EwmaKalmanConverge ==
    (spc = "const" /\ seen # <<>>) =>
        /\ Len(seen) >= 15 =>
              /\ Within5(predicted_offset_us(global_analyzer), seen[1])
              /\ 20 * Abs(global_analyzer.ewma_pred.n
                            - (seen[1] * global_analyzer.ewma_pred.d))
                    <= Abs(seen[1]) * global_analyzer.ewma_pred.d
        /\ Len(seen) >= 10 => Within5(kalman_offset_us(global_analyzer), seen[1])

\* The end of a stream of the smallest sample, both estimators on it
C24_Witness ==
    /\ spc = "const"
    /\ Len(seen) = MaxConstSteps
    /\ seen[1] = -1
    /\ predicted_offset_us(global_analyzer) = -1
    /\ kalman_offset_us(global_analyzer) = -1

\* C25: on a constant stream of a non-zero sample s the PID output settles
\* within 5% of s: it is there at the end of a run of MaxConstSteps samples.
C25_PidConverges ==
    (spc = "const" /\ Len(seen) >= MaxConstSteps) =>
        Within5(pid_offset_us(global_analyzer), seen[1])

\* Bit 31 of a 32-bit word is clear: the word is not negative as a signed
\* integer and its top byte is below 128
Bit31Clear(w) == 0 <= w /\ Shr(w, 24) < 128

\* C26: every FRASEC word CommonFrame.set_frasec or udp_payloads.set_frasec
\* produces for a fraction in 0..2^24-1 and a time quality in 0..15, and
\* every FRACSEC field a client puts into a datagram, has bit 31 clear.
C26_ReservedBitClear ==
    /\ fcommon.kind = "ok" => Bit31Clear(fcommon.word)
    /\ (fpayload.kind = "ok" /\ fin.fr_seconds \in 0..16777215
          /\ fin.time_quality \in 0..15)
        => Bit31Clear(fpayload.word)
    /\ sent > 0 => Bit31Clear(payload.FRACSEC)

\* Both packers have produced a word with every flag set and the largest
\* fraction: the top byte is 0x7F
C26_Witness ==
    /\ fcommon.kind = "ok" /\ fpayload.kind = "ok"
    /\ fin.leap_dir = "-" /\ fin.leap_occ /\ fin.leap_pen
    /\ fin.time_quality = 15 /\ fin.fr_seconds = 16777215
    /\ Shr(fcommon.word, 24) = 127
    /\ fpayload.word = fcommon.word

\* The arguments are ones a FRASEC packer has to refuse
InvalidFrasecArgs ==
    \/ ~(0 <= fin.fr_seconds /\ fin.fr_seconds < Pow2(24))
    \/ fin.time_quality \in {12, 13, 14}
    \/ fin.time_quality \notin 0..15
    \/ fin.leap_dir \notin {"+", "-"}

\* C27: CommonFrame.set_frasec and udp_payloads.set_frasec refuse a fraction
\* >= 2^24, a time quality in {12, 13, 14} or outside 0..15, and a leap
\* direction other than '+' or '-': neither produces a word for them.
C27_PackersRejectInvalid ==
    InvalidFrasecArgs =>
        /\ fcommon.kind # "ok"
        /\ fpayload.kind # "ok"


\* Claim C28 -- get_measurements reports, for each stream, FNOM + freq/1000
\* when FREQ is a 16-bit integer (format bit 3 clear), and the value held in
\* FREQ itself, with nothing added, when FREQ is floating point (bit 3 set).
SameValue(q, x) ==
    IF x.e >= 0 THEN q.num = x.m * Pow2(x.e) * q.den
    ELSE q.num * Pow2(-x.e) = x.m * q.den
C28_ReportedFrequency ==
    IsOk(measured)
    => \A i \in 1..cfg.num_pmu :
          LET q == measured.val.measurements[i].frequency
              x == get_freq(frame.val)[i]
          IN  IF int2format(cfg.data_format[i]).freq_float THEN SameValue(q, x)
              ELSE \E fnom \in NominalFrequencies :
                      q.num * 1000 = (1000 * fnom + x) * q.den

\* Claim C29 -- for every valid STAT tuple _stat2int returns a word in
\* 0..65535 that holds the status in bits 15..14, "not synchronized" in bit
\* 13, "sorted by arrival" in bit 12, trigger, cfg_change and modified in bits
\* 11, 10 and 9, the time quality in bits 8..6, the unlocked time in bits 5..4
\* and the trigger reason in bits 3..0; and _int2stat of that word returns the
\* tuple that was packed.
Bit(w, n) == Shr(w, n) % 2 = 1
StatLayout(t, w) ==
    /\ 0 <= w /\ w <= 65535
    /\ Shr(w, 14) = MEASUREMENT_STATUS[t.measurement_status.w]
    /\ Bit(w, 13) <=> ~t.sync
    /\ Bit(w, 12) <=> t.sorting = "arrival"
    /\ Bit(w, 11) <=> t.trigger
    /\ Bit(w, 10) <=> t.cfg_change
    /\ Bit(w, 9) <=> t.modified
    /\ Shr(w, 6) % 8 = t.time_quality.v
    /\ Shr(w, 4) % 4 = t.unlocked.v
    /\ w % 16 = t.trigger_reason.v
SameStat(t, b) ==
    /\ b.measurement_status = t.measurement_status
    /\ b.sync = t.sync /\ b.sorting = t.sorting /\ b.trigger = t.trigger
    /\ b.cfg_change = t.cfg_change /\ b.modified = t.modified
    /\ TIME_QUALITY[b.time_quality.w] = t.time_quality.v
    /\ UNLOCKED_TIME[b.unlocked.w] = t.unlocked.v
    /\ TRIGGER_REASON[b.trigger_reason.w] = t.trigger_reason.v
C29_StatWordCodec ==
    /\ stat_codec.kind \in {"word", "back"}
       => IsOk(stat_codec.word) /\ StatLayout(stat_codec.tuple, stat_codec.word.val)
    /\ stat_codec.kind = "back"
       => IsOk(stat_codec.back) /\ SameStat(stat_codec.tuple, stat_codec.back.val)

\* Claim C30 -- the bytes convert2bytes returns for a data frame number
\* 16 + the sum over the streams of 2 + PHNMR*pw + 2*fw + ANNMR*aw + 2*DGNMR
\* (pw 8 or 4 by format bit 1, aw 4 or 2 by bit 2, fw 4 or 2 by bit 3), bytes
\* 2..3 of the frame hold that number, and a frame whose streams are all of
\* FORMAT 0b1111 is longer than every frame of the same counts under 0b0001.
RECURSIVE ClaimedStreams(_, _)
ClaimedStreams(c, i) ==
    IF i = 0 THEN 0
    ELSE LET fmt == c.data_format[i]
             pw == IF (fmt \div 2) % 2 = 1 THEN 8 ELSE 4
             aw == IF (fmt \div 4) % 2 = 1 THEN 4 ELSE 2
             fw == IF (fmt \div 8) % 2 = 1 THEN 4 ELSE 2
         IN  ClaimedStreams(c, i - 1) + 2 + c.phasor_num[i] * pw + 2 * fw
                 + c.analog_num[i] * aw + 2 * c.digital_num[i]
ClaimedSize(c) == 16 + ClaimedStreams(c, c.num_pmu)
Reformatted(c, fmt) == [c EXCEPT !.data_format = [i \in 1..c.num_pmu |-> fmt]]
EncodedData == cpc = "encoded" /\ IsOk(enc) /\ frame.val.frame_type = 0
C30_FrameSize ==
    EncodedData
    => /\ Len(enc.val) = ClaimedSize(cfg)
       /\ FromBytes(SubSeq(enc.val, 3, 4)) = ClaimedSize(cfg)
       /\ cfg = Reformatted(cfg, 15)
          => \A a \in FormatInputs(Reformatted(cfg, 1)) :
                LET f == DataFrame_init(a, Reformatted(cfg, 1), now)
                    b == DataFrame_convert2bytes(f.val, now)
                IN  (IsOk(f) /\ IsOk(b)) => Len(enc.val) > Len(b.val)
C30_Witness ==
    /\ EncodedData
    /\ cfg = Config(1, <<15>>, <<2>>, <<1>>, <<1>>)
    /\ Len(enc.val) = 16 + 2 + 16 + 8 + 4 + 2

\* Claim C31 -- a frame constructed with a SOC s and a FRASEC fraction f of
\* the caller's, zero included, is encoded with s in bytes 6..9 and f in the
\* low 24 bits of bytes 10..13; the wall clock fills a field only when the
\* caller left it out.
GivenFraction(frasec) == IF frasec.t = "tuple" THEN frasec.items.fr_seconds ELSE frasec.v
EncodedTimed == cpc = "encoded" /\ IsOk(enc) /\ given.kind = "time"
C31_CallerTimeUsed ==
    EncodedTimed
    => /\ given.soc.t # "None" => FromBytes(SubSeq(enc.val, 7, 10)) = given.soc.v
       /\ given.frasec.t # "None"
          => FromBytes(SubSeq(enc.val, 12, 14)) = GivenFraction(given.frasec)

\* Claim C32 -- when the bind fails at startup, the server process exits
\* with a non-zero status and never enters its receive loop: it takes no
\* datagram and sends no reply.  This holds for udp_server_main and for
\* udp_simple_server.
C32_BindFailureAborts ==
    proc.bound = "failed"
    => /\ spc = "exited"
       /\ proc.exit_status.t = "int" /\ proc.exit_status.v # 0
       /\ received = 0 /\ reply = NoReply

\* Claim C33 -- an interrupt that arrives while the server is in its receive
\* loop ends the loop: no further datagram is taken, no further reply is
\* sent, and one last statistics snapshot is written.
C33_ShutdownOnInterrupt ==
    [][(spc = "loop" /\ spc' = "stopped")
       => /\ received' = received /\ reply' = reply /\ sqn_num' = sqn_num
          /\ proc'.snapshots = proc.snapshots + 1]_vars

\* Claim C37 -- a datagram that is not 16 bytes long does not end the receive
\* loop of udp_simple_server: whatever it has received, the bound server is
\* still in its loop.
C37_SimpleServerSurvives ==
    (proc.program = "simple" /\ proc.bound = "bound" /\ received > 0) => spc = "loop"

\* Claim C34 -- a datagram that is not 16 bytes long changes no estimator
\* state: the registry of clients, the packet counters, every analyzer, the
\* global analyzer and the ack counter stay as they are, no entry is made for
\* its sender, and no reply is sent.
TakesMalformed == received' = received + 1 /\ traffic.log[received'].d.len # 16
C34_MalformedChangesNothing ==
    [][TakesMalformed
       => /\ UNCHANGED <<global_analyzer, client_analyzers, client_packet_count,
                         client_bias_us, sqn_num>>
          /\ reply' = NoReply]_vars
\* A malformed datagram from an endpoint not seen before was taken after a
\* request was answered
C34_Witness ==
    /\ received = 2
    /\ traffic.log[1].d.len = 16 /\ traffic.log[1].from = "A"
    /\ traffic.log[2].d.len # 16 /\ traffic.log[2].from = "B"
    /\ DOMAIN client_analyzers = {"A"}
    /\ reply = NoReply

\* Claim C35 -- for any interleaving of datagrams from several endpoints,
\* malformed ones included, the server sends at most one reply per datagram
\* it receives, and every reply goes to the endpoint the datagram it answers
\* came from.
C35_RepliesToSender ==
    /\ [](sqn_num <= received)
    /\ [][reply' # reply
          => /\ received' = received + 1
             /\ reply'.kind = "reply"
                => /\ traffic.log[received'].d.len = 16
                   /\ reply'.to = traffic.log[received'].from]_vars
\* A request from B answered right after a malformed datagram from A
C35_Witness ==
    /\ received = 2
    /\ traffic.log[1].d.len # 16 /\ traffic.log[1].from = "A"
    /\ traffic.log[2].from = "B"
    /\ reply.kind = "reply" /\ reply.to = "B"

\* Claim C36 -- for a phasor held in a polar, 16-bit integer format
\* get_phasors multiplies the magnitude by phasor_unit * 10^-5, and the angle
\* it reports is the same whatever the unit of the phasor is.
PolarInteger(fmt) == int2format(fmt).polar /\ ~int2format(fmt).phasor_float
C36_PolarScalingMagnitudeOnly ==
    IsOk(measured)
    => \A i \in 1..cfg.num_pmu : \A j \in 1..cfg.phasor_num[i] :
          PolarInteger(cfg.data_format[i])
          => LET raw == int2phasor(frame.val.phasors[i][j], cfg.data_format[i])
                 ph == measured.val.measurements[i].phasors[j]
             IN  /\ \E u \in PhasorFactors : ph[1] = Scaled(raw[1], u)
                 /\ \A u \in PhasorFactors :
                        get_phasors(frame.val, PhUnits(cfg, u))[i][j][2] = ph[2]

\* Claim C38 -- every value the DataFrame setters accept fits its wire
\* field: convert2bytes succeeds on every data frame that was constructed,
\* and a STAT above 65535 or a rectangular component outside the signed
\* 16-bit range is refused at construction with a range error.
GivenData == given.kind = "data" /\ cpc \in {"built", "encoded"}
Int16(x) == -32768 <= x /\ x <= 32767
C38_AcceptedValuesEncode ==
    /\ (GivenData /\ cpc = "encoded") => IsOk(enc)
    /\ (GivenData /\ given.args.stat[1].t = "int" /\ given.args.stat[1].v > 65535)
       => ~IsOk(frame) /\ frame.err = "ValueError"
    /\ (GivenData /\ ~int2format(cfg.data_format[1]).polar
          /\ given.args.stat[1] = PyInt(65535)
          /\ ~(Int16(given.args.phasors[1][1][1]) /\ Int16(given.args.phasors[1][1][2])))
       => ~IsOk(frame) /\ frame.err = "ValueError"

\* Claim C39 -- udp_simple_client is stop-and-wait: the datagrams sent and
\* the replies received differ by 0 or 1 at every moment, a datagram is sent
\* only when every earlier one has been answered, and the reply handled in
\* an iteration is paired with the datagram (and so the send_time) of that
\* same iteration.
SendsDatagram == kpc = "send" /\ kpc' = "wait"
TakesReply == kpc = "wait" /\ kpc' \in {"send", "exited"}
C39_StopAndWait ==
    /\ [](sent - answers \in {0, 1})
    /\ [][(SendsDatagram => sent = answers)
          /\ (TakesReply => sent = answers + 1 \/ sent = MaxClientPackets)
          /\ (TakesReply => answers' = sent /\ payload' = payload)]_vars
C39_Witness == kpc = "wait" /\ sent = 3 /\ answers = 2 /\ applied.kind = "applied"

\* Claim C40 -- common_frame_build(FRACSEC = set_frasec(...)) returns, for
\* every fraction in 0..2^24-1, either leap direction, any leap flags and a
\* time quality in {0..11, 15}, a 16-byte datagram that carries the word
\* unchanged; it neither rejects the word nor ends the process.
ClaimedFrasec ==
    /\ 0 <= fin.fr_seconds /\ fin.fr_seconds <= 16777215
    /\ fin.leap_dir \in {"+", "-"}
    /\ fin.time_quality \in (0..11) \cup {15}
C40_FrasecWordCarried ==
    (fpayload # Blank /\ ClaimedFrasec)
    => /\ kpc = "fast_wait"
       /\ payload # Blank
       /\ payload.len = 16
       /\ payload.FRACSEC = fpayload.word

=============================================================================
